---- MODULE Spec2Model ----
(***************************************************************************)
(* Session relay of code-companion: the room registry (rooms.ts), the      *)
(* server that owns one shell process per room and relays its I/O to the   *)
(* attached sockets (server.ts), and the Slack bridge (slack.ts) with the  *)
(* Slack endpoints of the server variant that carries it.                  *)
(*                                                                         *)
(* Every action is one callback of the single-threaded event loop, run to  *)
(* completion.  Room objects and shell processes are identified by the     *)
(* order of their creation (closures capture the object, not the code).    *)
(***************************************************************************)
EXTENDS Integers, Sequences, FiniteSets, TLC

\* ---------------------------------------------------------------- bounds
MaxRooms == 2
NumSockets == 2
\* Connections followed on the server that carries the Slack bridge, and slash
\* commands suspended at chat.postMessage at one time.
NumSlackSockets == 1
MaxPending == 1
SlackSockets == 1..NumSlackSockets
\* Display name and exit code followed on that server.
SlackNames == {"A"}
SlackExitCodes == {0}

\* Values generateCode() may return (two, so that a draw can repeat).
Codes == {"c1", "c2"}
\* Display names a client may send.
Names == {"A", "B"}
\* Exit codes a shell ends with on its own.
ExitCodes == {0, 1}
\* Output chunks of a shell, as character sequences: plain text and an ANSI
\* erase sequence.
Chunks == {<<"a">>, <<"ESC", "[", "2", "J">>}
\* Input a viewer types.
Inputs == {"ls"}
\* Slack channels; threads are numbered in the order Slack creates them, at
\* most MaxThreads of them (Slack never gives two messages of a channel the
\* same timestamp).
Channels == {"C1"}
MaxThreads == 2
\* Longest coalescer buffer the model follows, in chunks.
MaxBuf == 1
\* Math.floor(Date.now() / 1000) when a Slack request arrives.
NowSeconds == 1000
\* An OutputBuffer followed on its own: its delay in clock ticks, the last
\* tick of the clock, and the number of appends.
Delay == 2
MaxTime == 7
MaxAppends == 3
\* Helper processes one TunnelManager spawns.
MaxHelpers == 3
\* Chunks one shell writes to its stdout while its output is followed.
MaxChunks == 3
\* Connections that try the room of the variant with MAX_USERS.
NumCappedSockets == 3
\* Chunks appended to it: text, and an erase sequence cut in two.
BufChunks == {<<"a">>, <<"ESC", "[">>, <<"2", "J">>}

RoomIds == 1..MaxRooms
Sockets == 1..NumSockets
None == 0
Threads == 1..MaxThreads
NoThread == 0
NoCode == ""
NoName == ""

VARIABLES
  slackBridge,   \* options.slackBridge is set (server variant with Slack)
  closed,        \* close() has run
  rooms,         \* RoomManager.rooms : code -> Room object (None = absent)
  room,          \* the Room objects ever constructed
  nRooms,        \* number of Room objects constructed
  ptyProcesses,  \* ptyProcesses : code -> shell (None = absent)
  shell,         \* the shell processes ever spawned
  sock,          \* the socket.io connections
  linkedRooms,   \* SlackBridge.linkedRooms : code -> LinkedRoom
  threadToRoom,  \* SlackBridge.threadToRoom : "channel:thread" -> code
  detached,      \* OutputBuffers no longer in linkedRooms whose timer is pending
  pending,       \* slash commands suspended at `await chat.postMessage`
  nThreads,      \* number of threads Slack has created for the bridge
  emitted,       \* socket.io events and Slack posts of the last callback
  op,            \* the last callback: what ran and what it did to shells
  ob,            \* one OutputBuffer on its own, with the clock of its timers
  call,          \* one call of verifySlackSignature: its arguments and outcome
  tunnel,        \* one TunnelManager with the helper processes it has spawned
  relay,         \* one shell's output on its way to the viewers of its room
  mcp,           \* the MCP entry point: its cached server and suspended handlers
  capped         \* one room of the server variant with MAX_USERS

server == <<closed, rooms, room, nRooms, ptyProcesses, shell, sock>>
bridge == <<linkedRooms, threadToRoom, detached, pending, nThreads>>
\* The components followed on their own, outside a server.
units == <<ob, call, tunnel, relay, mcp, capped>>
vars == <<slackBridge, server, bridge, emitted, op, units>>

\* ------------------------------------------------------------ Room objects
NewRoom(code) == [code |-> code, users |-> <<>>, creatorSocketId |-> None]
NoRoom == [code |-> NoCode, users |-> <<>>, creatorSocketId |-> None]

\* Room.destroy(): users.clear()
Destroy(r) == [r EXCEPT !.users = <<>>]

RECURSIVE SeqWithout(_, _)
SeqWithout(us, s) ==
  IF us = <<>> THEN <<>>
  ELSE IF Head(us).socketId = s THEN SeqWithout(Tail(us), s)
  ELSE <<Head(us)>> \o SeqWithout(Tail(us), s)

\* addUser that makes every socket it adds the creator.
AddUser_lastCreator(r, s, name) ==
  [r EXCEPT !.creatorSocketId = s,
            !.users = Append(@, [socketId |-> s, name |-> name])]

\* Room.addUser: the first socket ever added becomes the creator;
\* users.set(socketId, name) keeps the place of a key already present.
AddUser(r, s, name) ==
  [r EXCEPT !.creatorSocketId = IF @ = None THEN s ELSE @,
            !.users = IF \E i \in 1..Len(@) : @[i].socketId = s
                      THEN [i \in 1..Len(@) |->
                              IF @[i].socketId = s
                              THEN [socketId |-> s, name |-> name] ELSE @[i]]
                      ELSE Append(@, [socketId |-> s, name |-> name])]

\* Room.removeUser
RemoveUser(r, s) == [r EXCEPT !.users = SeqWithout(@, s)]

\* Room.userCount
UserCount(r) == Len(r.users)

\* Room.getUsers().map(u => u.name)
UserNames(r) == [i \in 1..Len(r.users) |-> r.users[i].name]

\* ------------------------------------------------------------- RoomManager
\* getRoom(code)
GetRoom(rs, code) == rs[code]

\* createRoom(): the code is whatever generateCode() drew; no collision check.
CreateRoomMap(rs, code, id) == [rs EXCEPT ![code] = id]

\* destroyRoom with the rooms.delete left out.
DestroyRoomMap_keeps(rs, code) == rs

\* destroyRoom(code): room.destroy() then rooms.delete(code); no-op if absent.
DestroyRoomMap(rs, code) == [rs EXCEPT ![code] = None]
DestroyRoomObjs(rs, objs, code) ==
  IF rs[code] = None \/ rs[code] \notin RoomIds THEN objs
  ELSE [objs EXCEPT ![rs[code]] = Destroy(@)]

\* destroyAll()
DestroyAllMap(rs) == [c \in Codes |-> None]
DestroyAllObjs(rs, objs) ==
  [i \in RoomIds |-> IF \E c \in Codes : rs[c] = i
                     THEN Destroy(objs[i]) ELSE objs[i]]

\* ------------------------------------------------------------------ shells
\* phase: "none" not spawned, "running", "exited" (the exit event was
\* delivered; the stdout pipe may still hold data).  killed: kill() was called.
NoShell == [phase |-> "none", killed |-> FALSE, code |-> NoCode]

\* Kill with the kill() left out.
Kill_none(sh, id) == sh

\* ptyProcess.kill() on the shell `id`, when there is one.
Kill(sh, id) == IF id = None THEN sh ELSE [sh EXCEPT ![id].killed = TRUE]

\* ----------------------------------------------------------------- sockets
NewSock == [state |-> "new", roomCode |-> NoCode, displayName |-> NoName,
            room |-> None]
GoneSock == [state |-> "gone", roomCode |-> NoCode, displayName |-> NoName,
             room |-> None]
RejectedSock == [GoneSock EXCEPT !.state = "rejected"]

\* io.to(code): the sockets that joined the socket.io room `code` and have
\* not disconnected (socket.io leaves all rooms before "disconnect" fires).
IoTo(sk, code) == {s \in Sockets : sk[s].state = "joined" /\ sk[s].roomCode = code}

\* One emitted event: a socket.io event sent to the sockets `to`, or a Slack
\* chat.postMessage (to = {}, name = the thread it goes to).
Emit(event, to, name, users, data, exitCode) ==
  [event |-> event, to |-> to, name |-> name, users |-> users, data |-> data,
   exitCode |-> exitCode, thread |-> NoThread]

\* A chat.postMessage into a thread.
SlackPost(event, thread, text) ==
  [Emit(event, {}, "", <<>>, text, 0) EXCEPT !.thread = thread]

\* What the last callback was: its name, the socket or shell it ran for, the
\* room code it used, the shells it called kill / write / resize on, and its
\* outcome; for a socket handler, the Room object its closure holds.
Op(name, who, code, killed, wrote, resized, status) ==
  [name |-> name, who |-> who, code |-> code, killed |-> killed, wrote |-> wrote,
   resized |-> resized, status |-> status, sigOk |-> FALSE, room |-> None]

\* ------------------------------------------------------------- OutputBuffer
\* Character classes of ANSI_REGEX.
CsiParam == {"0", "1", "2", "3", ";"}
UpperLetter == {"A", "B", "H", "J"}
Letter == UpperLetter \cup {"a", "b", "m"}

\* Length of the match of ANSI_REGEX at the head of str, 0 if none:
\* ESC [ [0-9;]* [a-zA-Z]  |  ESC ] [^BEL]* BEL  |  ESC ( [A-Z]
RECURSIVE SkipWhile(_, _, _)
SkipWhile(str, i, class) ==
  IF i <= Len(str) /\ str[i] \in class THEN SkipWhile(str, i + 1, class) ELSE i

RECURSIVE SkipUntilBel(_, _)
SkipUntilBel(str, i) ==
  IF i > Len(str) THEN 0
  ELSE IF str[i] = "BEL" THEN i ELSE SkipUntilBel(str, i + 1)

AnsiMatchLen(str) ==
  IF Len(str) < 2 \/ str[1] # "ESC" THEN 0
  ELSE IF str[2] = "["
       THEN LET j == SkipWhile(str, 3, CsiParam)
            IN IF j <= Len(str) /\ str[j] \in Letter THEN j ELSE 0
  ELSE IF str[2] = "]" THEN SkipUntilBel(str, 3)
  ELSE IF str[2] = "(" /\ Len(str) >= 3 /\ str[3] \in UpperLetter THEN 3
  ELSE 0

\* stripAnsi(str) = str.replace(ANSI_REGEX, "")
RECURSIVE StripAnsi(_)
StripAnsi(str) ==
  IF str = <<>> THEN <<>>
  ELSE LET n == AnsiMatchLen(str)
       IN IF n > 0 THEN StripAnsi(SubSeq(str, n + 1, Len(str)))
          ELSE <<Head(str)>> \o StripAnsi(Tail(str))

\* this.buffer as the string it is: the appended chunks, concatenated.
RECURSIVE Concat(_)
Concat(chunks) ==
  IF chunks = <<>> THEN <<>> ELSE Head(chunks) \o Concat(Tail(chunks))

\* The OutputBuffer object with the timers it has set that are still to run
\* (`timers`, each named by the tick it is due), the texts handed to onFlush
\* (`sink`) and the clock; burst, done, lastAppend, appends and last record
\* the chunks appended since the last flush or destroy, the chunks of the
\* last flush, the tick of the last append, the appends so far and the last
\* call.
NewOutputBuffer ==
  [buffer |-> <<>>, timer |-> None, timers |-> {}, sink |-> <<>>, now |-> 0,
   burst |-> <<>>, done |-> <<>>, lastAppend |-> 0, appends |-> 0, last |-> "new"]

\* append with the clearTimeout left out.
ObAppend_noClear(o, data) ==
  [o EXCEPT !.buffer = @ \o data,
            !.timers = @ \cup {o.now + Delay},
            !.timer = o.now + Delay]

\* append(data): buffer += data; clearTimeout(timer); timer = setTimeout(flush)
ObAppend(o, data) ==
  [o EXCEPT !.buffer = @ \o data,
            !.timers = (@ \ {o.timer}) \cup {o.now + Delay},
            !.timer = o.now + Delay]

\* destroy with the clearTimeout left out.
ObDestroy_keepTimer(o) == [o EXCEPT !.buffer = <<>>]

\* destroy(): clearTimeout(timer); timer = null; buffer = ""
ObDestroy(o) ==
  [o EXCEPT !.timers = @ \ {o.timer}, !.timer = None, !.buffer = <<>>]

\* flush that hands the text on and keeps it in the buffer.
ObFlush_keepsBuffer(o) ==
  LET text == StripAnsi(o.buffer)
  IN [o EXCEPT !.timer = None,
               !.sink = IF Len(text) > 0 THEN Append(@, text) ELSE @]

\* flush that keeps a buffer it does not hand on.
ObFlush_keepsEmpty(o) ==
  LET text == StripAnsi(o.buffer)
  IN IF Len(text) > 0
     THEN [o EXCEPT !.timer = None, !.buffer = <<>>, !.sink = Append(@, text)]
     ELSE [o EXCEPT !.timer = None]

\* flush(): timer = null; text = stripAnsi(buffer); buffer = "";
\* onFlush(text) when text is not empty.
ObFlush(o) ==
  LET text == StripAnsi(o.buffer)
  IN [o EXCEPT !.timer = None, !.buffer = <<>>,
               !.sink = IF Len(text) > 0 THEN Append(@, text) ELSE @]

\* ------------------------------------------------------------- SlackBridge
NoLink == [channelId |-> "", threadTs |-> NoThread, buffer |-> <<>>, timer |-> FALSE]
Linked(lr, code) == lr[code].channelId # ""
ThreadKeys == Channels \X Threads

\* linkRoom: a fresh OutputBuffer; both maps set.  An OutputBuffer it replaces
\* is dropped from the map with its timer left running.
LinkRoom(b, code, ch, ts) ==
  [lr |-> [b.lr EXCEPT ![code] =
             [channelId |-> ch, threadTs |-> ts, buffer |-> <<>>, timer |-> FALSE]],
   ttr |-> [b.ttr EXCEPT ![<<ch, ts>>] = code],
   det |-> IF Linked(b.lr, code) /\ b.lr[code].timer
           THEN b.det \cup {[code |-> code,
                            channelId |-> b.lr[code].channelId,
                            threadTs |-> b.lr[code].threadTs,
                            buffer |-> b.lr[code].buffer]}
           ELSE b.det]

\* unlinkRoom: buffer.destroy(), threadToRoom.delete, linkedRooms.delete.
UnlinkRoom(b, code) ==
  IF ~Linked(b.lr, code) THEN b
  ELSE [lr |-> [b.lr EXCEPT ![code] = NoLink],
        ttr |-> [b.ttr EXCEPT ![<<b.lr[code].channelId, b.lr[code].threadTs>>] = NoCode],
        det |-> b.det]

\* onOutput: buffer.append(data) when linked (buffer += data, timer restarted).
OnOutput(b, code, data) ==
  IF ~Linked(b.lr, code) THEN b
  ELSE [b EXCEPT !.lr[code].buffer = Append(@, data), !.lr[code].timer = TRUE]

\* onRoomDestroyed with the unlinkRoom left out.
OnRoomDestroyed_keepsLink(b, code) == b

\* onRoomDestroyed: the "Session ended." post, then unlinkRoom.
OnRoomDestroyedPosts(b, code) ==
  IF Linked(b.lr, code)
  THEN <<SlackPost("slack:ended", b.lr[code].threadTs, <<>>)>>
  ELSE <<>>
OnRoomDestroyed(b, code) == IF Linked(b.lr, code) THEN UnlinkRoom(b, code) ELSE b

\* getRoomForThread
GetRoomForThread(b, ch, ts) == b.ttr[<<ch, ts>>]

\* SlackBridge.destroy(): unlinkRoom for every linked code.
RECURSIVE BridgeDestroy(_, _)
BridgeDestroy(b, codes) ==
  IF codes = {} THEN b
  ELSE LET c == CHOOSE x \in codes : TRUE
       IN BridgeDestroy(UnlinkRoom(b, c), codes \ {c})

Bridge == [lr |-> linkedRooms, ttr |-> threadToRoom, det |-> detached]
SetBridge(b) ==
  /\ linkedRooms' = b.lr
  /\ threadToRoom' = b.ttr
  /\ detached' = b.det

\* ---------------------------------------------------- verifySlackSignature
MAX_SIGNATURE_AGE_SECONDS == 300
\* Length of "v0=" followed by a hex SHA-256 digest.
SignatureLength == 67
SigningSecret == "secret"

\* A timestamp header: absent, or a string that Number() reads as `value`
\* or as NaN.  A signature header: absent (len 0), or a string of `len`
\* characters that Buffer.from() encodes in `bytes` bytes; `mac` stands for
\* its characters.
Timestamp(present, numeric, value) ==
  [present |-> present, numeric |-> numeric, value |-> value]
\* HMAC-SHA256 taken as collision free: the digest names its key and message.
Hmac(secret, basestring) == <<secret, basestring>>
Abs(x) == IF x < 0 THEN -x ELSE x

\* The age check left out.
StaleAge_never(ts) == FALSE

StaleAge(ts) == Abs(NowSeconds - ts.value) > MAX_SIGNATURE_AGE_SECONDS

\* verifySlackSignature: "true" or "false" as it returns, "throws" when
\* crypto.timingSafeEqual is handed buffers of different byte length (a
\* signature of the right length in characters that holds a character
\* outside ASCII).
VerifySlackSignature(signingSecret, signature, timestamp, body) ==
  IF ~timestamp.numeric THEN "false"
  ELSE IF StaleAge(timestamp) THEN "false"
  ELSE LET basestring == <<"v0", timestamp.value, body>>
           computed == [len |-> SignatureLength, bytes |-> SignatureLength,
                        mac |-> Hmac(signingSecret, basestring)]
       IN IF computed.len # signature.len THEN "false"
          ELSE IF computed.bytes # signature.bytes THEN "throws"
          ELSE IF computed.mac = signature.mac THEN "true" ELSE "false"

\* makeSignature of the tests: what a holder of `secret` sends.
MakeSignature(secret, timestamp, body) ==
  [len |-> SignatureLength, bytes |-> SignatureLength,
   mac |-> Hmac(secret, <<"v0", timestamp.value, body>>)]

\* A signature cut short, and one of the right length with one character
\* outside ASCII.
Truncated(signature) == [signature EXCEPT !.len = 8, !.bytes = 8]
NonAscii(signature) ==
  [signature EXCEPT !.bytes = SignatureLength + 1, !.mac = <<"non-ascii", @>>]

\* The headers a request may carry: a timestamp header and the signature
\* header sent with it.
Fresh == Timestamp(TRUE, TRUE, NowSeconds)
Headers(body) ==
  {<<Fresh, MakeSignature(SigningSecret, Fresh, body)>>,
   <<Fresh, MakeSignature("wrong-secret", Fresh, body)>>,
   <<Fresh, [MakeSignature("", Fresh, body) EXCEPT !.len = 0, !.bytes = 0]>>,
   <<Fresh, NonAscii(MakeSignature(SigningSecret, Fresh, body))>>,
   <<Timestamp(TRUE, TRUE, NowSeconds - 600),
     MakeSignature(SigningSecret, Timestamp(TRUE, TRUE, NowSeconds - 600), body)>>,
   <<Timestamp(FALSE, FALSE, 0),
     MakeSignature(SigningSecret, Timestamp(FALSE, FALSE, 0), body)>>}

\* One call of verifySlackSignature: its arguments, and what it gave
\* ("none" before it has run).
Call(secret, signature, timestamp, body, result) ==
  [secret |-> secret, signature |-> signature, timestamp |-> timestamp,
   body |-> body, result |-> result]
NoCall == Call("", [len |-> 0, bytes |-> 0, mac |-> <<>>],
               Timestamp(FALSE, FALSE, 0), "", "none")

\* Arguments of the calls followed: two secrets, two bodies, timestamps at
\* and around the age limit, 600 seconds old and not a number, and every
\* signature made from them, whole, cut short or with a non-ASCII character.
CallSecrets == {SigningSecret, "wrong-secret"}
CallBodies == {"command=%2Fcode", "command=%2Ftampered"}
CallTimestamps ==
  {Timestamp(TRUE, TRUE, NowSeconds + d) :
     d \in {0, -MAX_SIGNATURE_AGE_SECONDS, -(MAX_SIGNATURE_AGE_SECONDS + 1),
            MAX_SIGNATURE_AGE_SECONDS, MAX_SIGNATURE_AGE_SECONDS + 1, -600}}
  \cup {Timestamp(TRUE, FALSE, 0)}
CallSignatures ==
  UNION {{MakeSignature(k, t, b), Truncated(MakeSignature(k, t, b)),
          NonAscii(MakeSignature(k, t, b))} :
           k \in CallSecrets, t \in CallTimestamps, b \in CallBodies}
CallInputs ==
  {Call(k, sg, t, b, "none") :
     k \in CallSecrets, sg \in CallSignatures, t \in CallTimestamps,
     b \in CallBodies}

\* Headers of an event request: signed by Slack, or by someone else.
EventHeaders(body) ==
  {<<Fresh, MakeSignature(SigningSecret, Fresh, body)>>,
   <<Fresh, MakeSignature("wrong-secret", Fresh, body)>>}

\* The guard without the call of verifySlackSignature.
CommandAuthorized_unverified(signature, timestamp, body) ==
  signature.len # 0 /\ timestamp.present

\* The guard of app.post("/slack/commands")
CommandAuthorized(signature, timestamp, body) ==
  /\ signature.len # 0
  /\ timestamp.present
  /\ VerifySlackSignature(SigningSecret, signature, timestamp, body) = "true"

\* The same guard ending in the exception of timingSafeEqual: the handler
\* stops there and sends no response.
CommandThrows(signature, timestamp, body) ==
  /\ signature.len # 0
  /\ timestamp.present
  /\ VerifySlackSignature(SigningSecret, signature, timestamp, body) = "throws"

\* Request bodies: a slash command ("join <code>" or anything else), an event.
Body(kind, code, thread, bot) ==
  [kind |-> kind, code |-> code, thread |-> thread, bot |-> bot]
CommandBodies ==
  {Body("join", c, NoThread, FALSE) : c \in Codes}
  \cup {Body("create", NoCode, NoThread, FALSE)}
\* Slash-command requests: every body signed by Slack, every body signed by
\* someone else, and the other header faults on the default body.
CommandRequests ==
  UNION {{<<h[1], h[2], body>> : h \in EventHeaders(body)} : body \in CommandBodies}
  \cup {<<h[1], h[2], Body("create", NoCode, NoThread, FALSE)>> :
           h \in Headers(Body("create", NoCode, NoThread, FALSE))}
EventBodies ==
  {Body("url_verification", NoCode, NoThread, FALSE),
   Body("other", NoCode, NoThread, FALSE),
   Body("message", NoCode, NoThread, FALSE)}
  \cup {Body("message", NoCode, th, bot) : th \in Threads, bot \in BOOLEAN}
\* Event requests: every body signed by Slack, and the thread replies signed
\* by someone else.
EventRequests ==
  {<<Fresh, MakeSignature(SigningSecret, Fresh, body), body>> : body \in EventBodies}
  \cup {<<Fresh, MakeSignature("wrong-secret", Fresh, body), body>> :
           body \in {Body("message", NoCode, th, FALSE) : th \in Threads}}

\* ------------------------------------------------------------ TunnelManager
Helpers == 1..MaxHelpers

\* One child of spawn("cloudflared") with the closure of the start() that
\* made it.  phase: "none" not spawned; "alive"; "nospawn" the spawn failed
\* and the error event is still to come; "errored"; "closed" (the close
\* event was delivered).  killed: child.killed.  settled, timer: the closure's
\* flag and its startup timeout.  result: how the promise of start() ended.
NoChild ==
  [phase |-> "none", killed |-> FALSE, settled |-> FALSE, timer |-> FALSE,
   result |-> "none"]

\* The last call or event of the manager: its name, the helper it concerns,
\* its outcome and the exit code it carried.
TunnelOp(name, h, outcome, code) ==
  [name |-> name, h |-> h, outcome |-> outcome, code |-> code]

\* new TunnelManager(): process = null, _url = null.  url is named by the
\* helper that printed it.
NewTunnel ==
  [process |-> None, url |-> None, child |-> [h \in Helpers |-> NoChild],
   n |-> 0, last |-> TunnelOp("new", None, "", 0)]

\* get isRunning
IsRunning(t) == t.process # None /\ ~t.child[t.process].killed

\* stop(): when process is set, kill() (which sets killed when the process
\* exists), process = null, _url = null.
TunnelStop(t) ==
  IF t.process # None
  THEN [t EXCEPT !.child[t.process].killed = (@ \/ t.child[t.process].phase = "alive"),
                 !.process = None, !.url = None]
  ELSE t

\* The error handler of a start() that has not settled, with the two
\* assignments left out.
ErrorSettles_keepsState(t, h, outcome) ==
  [t EXCEPT !.child[h].settled = TRUE, !.child[h].timer = FALSE,
            !.child[h].result = outcome]

\* The handler that rejects without marking the start() settled.
ErrorSettles_unsettled(t, h, outcome) ==
  [t EXCEPT !.child[h].result = outcome, !.process = None, !.url = None]

\* The error handler and the first close handler of a start() that has not
\* settled: settled, clearTimeout, process = null, _url = null, reject.
ErrorSettles(t, h, outcome) ==
  [t EXCEPT !.child[h].settled = TRUE, !.child[h].timer = FALSE,
            !.child[h].result = outcome, !.process = None, !.url = None]

\* start(port): rejects when isRunning; else spawn, process = child, and the
\* timeout and listeners of the new closure.  spawned: whether the
\* executable could be started.
TunnelStart(t, spawned) ==
  IF IsRunning(t)
  THEN [t EXCEPT !.last = TunnelOp("start", None, "already running", 0)]
  ELSE LET h == t.n + 1
       IN [t EXCEPT !.n = h,
                    !.process = h,
                    !.child[h] = [phase |-> IF spawned THEN "alive" ELSE "nospawn",
                                  killed |-> FALSE, settled |-> FALSE,
                                  timer |-> TRUE, result |-> "pending"],
                    !.last = TunnelOp("start", h, "pending", 0)]

\* ------------------------------------------------------- output relay
\* One shell and the sockets of its room.  The chunks of stdout are named by
\* their place in the stream: chunk n is the n-th "data" event.  wire[s] is
\* what socket.io has been handed for socket s and the client has not
\* received yet; got[s] is what the client of s has received; since[s] is the
\* number of chunks written before s joined.
NewRelay ==
  [chunks |-> 0,
   state |-> [s \in Sockets |-> "new"],
   since |-> [s \in Sockets |-> 0],
   wire |-> [s \in Sockets |-> <<>>],
   got |-> [s \in Sockets |-> <<>>]]

\* The data callback that sends the chunk to one viewer only.
DataCallback_first(r, n) ==
  LET to == {s \in Sockets : r.state[s] = "joined"}
  IN [r EXCEPT !.wire = [s \in Sockets |->
                           IF s \in to /\ \A x \in to : s <= x
                           THEN Append(@[s], n) ELSE @[s]]]

\* proc.stdout.on("data") with the one callback createRoomInternal registers:
\* io.to(room.code).emit("terminal:output", data), a packet for every socket
\* in the socket.io room.
DataCallback(r, n) ==
  [r EXCEPT !.wire = [s \in Sockets |->
                        IF r.state[s] = "joined" THEN Append(@[s], n) ELSE @[s]]]

\* -------------------------------------------------------------- MCP tools
\* The result of the last tool call: the handler, how it ended ("pending"
\* while it is suspended), the roomCode, the code in the localUrl, the
\* tunnelUrl (named by the helper that printed it, None when absent), how the
\* tunnel.start it awaited ended, and whether getServer created a server.
McpResult(name, status, code, tunnelUrl, started, fresh) ==
  [name |-> name, status |-> status, roomCode |-> code, localUrl |-> code,
   tunnelUrl |-> tunnelUrl, tunnel |-> started, fresh |-> fresh]

\* main(): server = null; no handler runs.  create: the handleCreateSession
\* suspended at `await deps.tunnel.start`; closing: a handleStopServer is
\* suspended at `await srv.close()`.
NewMcp ==
  [server |-> FALSE,
   create |-> [phase |-> "idle", h |-> None, code |-> NoCode],
   closing |-> FALSE,
   last |-> McpResult("new", "", NoCode, None, "none", FALSE)]

\* The tunnelUrl of handleCreateSession after a start() that always yields.
Awaited_always(t, h) == h

\* `try { tunnelUrl = await deps.tunnel.start(srv.port) } catch {}`: the URL
\* when start() resolved, undefined when it rejected.
Awaited(t, h) == IF t.child[h].result = "url" THEN h ELSE None

\* handleListSessions: [] without a cached server, else srv.getRooms().
ListSessions(m, rs) ==
  IF ~m.server THEN {} ELSE {c \in Codes : GetRoom(rs, c) # None}

\* ----------------------------------------------- the room with MAX_USERS
MAX_USERS == 2
CappedSockets == 1..NumCappedSockets

\* One Room of that variant, registered (`live`) until its last user leaves,
\* the connections that try it, and the last thing the server did: the
\* event sent to the connection `who`, and what addUser returned.
NewCapped ==
  [room |-> [users |-> <<>>],
   live |-> TRUE,
   state |-> [s \in CappedSockets |-> "new"],
   last |-> [event |-> "", who |-> None, message |-> "", added |-> FALSE]]

\* addUser without the check of users.size.
AddUserCapped_noCap(r, s, name) ==
  [ok |-> TRUE, room |-> [r EXCEPT !.users = Append(@, [socketId |-> s, name |-> name])]]

\* addUser(socketId, name): false when users.size >= MAX_USERS, else
\* users.set and true.
AddUserCapped(r, s, name) ==
  IF UserCount(r) >= MAX_USERS THEN [ok |-> FALSE, room |-> r]
  ELSE [ok |-> TRUE,
        room |-> [r EXCEPT !.users = Append(@, [socketId |-> s, name |-> name])]]

\* ------------------------------------------------------------------- Init
InitServer ==
  /\ closed = FALSE
  /\ rooms = [c \in Codes |-> None]
  /\ room = [i \in RoomIds |-> NoRoom]
  /\ nRooms = 0
  /\ ptyProcesses = [c \in Codes |-> None]
  /\ shell = [i \in RoomIds |-> NoShell]
  /\ sock = [s \in Sockets |-> NewSock]
  /\ linkedRooms = [c \in Codes |-> NoLink]
  /\ threadToRoom = [k \in ThreadKeys |-> NoCode]
  /\ detached = {}
  /\ pending = {}
  /\ nThreads = 0
  /\ emitted = <<>>
  /\ op = Op("init", None, NoCode, {}, {}, {}, "")

\* No OutputBuffer call and no verifySlackSignature call is followed.
InitUnits ==
  ob = NewOutputBuffer /\ call = NoCall /\ tunnel = NewTunnel /\ relay = NewRelay
  /\ mcp = NewMcp
  /\ capped = NewCapped

\* createServer() without options.slackBridge
Init == slackBridge = FALSE /\ InitServer /\ InitUnits

\* createServer({slackBridge})
InitSlack == slackBridge = TRUE /\ InitServer /\ InitUnits

\* ------------------------------------------------- room creation (server)
\* The rollback of a failed spawn: roomManager.destroyRoom(room.code).
SpawnFailedMap(rs, code) == DestroyRoomMap(rs, code)

\* createRoomInternal: createRoom(), spawnPty (which may throw), then either
\* the rollback or ptyProcesses.set and the two callbacks.  The Room object of
\* a failed spawn is referenced by nothing afterwards.
CreateRoomInternal(code, ok) ==
  LET id == nRooms + 1
      rs1 == CreateRoomMap(rooms, code, id)
  IN IF ok
     THEN /\ nRooms' = id
          /\ rooms' = rs1
          /\ room' = [room EXCEPT ![id] = NewRoom(code)]
          /\ ptyProcesses' = [ptyProcesses EXCEPT ![code] = id]
          /\ shell' = [shell EXCEPT ![id] =
                         [phase |-> "running", killed |-> FALSE, code |-> code]]
     ELSE /\ rooms' = SpawnFailedMap(rs1, code)
          /\ UNCHANGED <<nRooms, room, ptyProcesses, shell>>

\* app.post("/api/rooms") and CodeCompanionServer.createRoom()
CreateRoom(code, ok) ==
  /\ ~closed
  /\ ok => nRooms < MaxRooms
  /\ CreateRoomInternal(code, ok)
  /\ emitted' = <<>>
  /\ op' = Op("createRoom", None, code, {}, {}, {}, IF ok THEN "200" ELSE "500")
  /\ UNCHANGED <<slackBridge, units, closed, sock, bridge>>

\* ------------------------------------------------------------- connection
\* Admit without the check of displayName.
Admit_anyName(rs, code, name) ==
  IF code = NoCode THEN "required"
  ELSE IF GetRoom(rs, code) = None THEN "not found"
  ELSE "ok"

\* The admission checks of io.on("connection").
Admit(rs, code, name) ==
  IF code = NoCode \/ name = NoName THEN "required"
  ELSE IF GetRoom(rs, code) = None THEN "not found"
  ELSE "ok"

\* io.on("connection"): reject, or addUser, join, user:joined.
Connect(s, code, name) ==
  /\ ~closed
  /\ sock[s].state = "new"
  /\ LET verdict == Admit(rooms, code, name)
         id == GetRoom(rooms, code)
     IN IF verdict # "ok"
        THEN /\ sock' = [sock EXCEPT ![s] = RejectedSock]
             /\ emitted' = <<Emit("error:room", {s}, verdict, <<>>, <<>>, 0)>>
             /\ op' = Op("connect", s, code, {}, {}, {}, verdict)
             /\ UNCHANGED room
        ELSE /\ room' = [room EXCEPT ![id] = AddUser(@, s, name)]
             /\ sock' = [sock EXCEPT ![s] =
                           [state |-> "joined", roomCode |-> code,
                            displayName |-> name, room |-> id]]
             /\ emitted' = <<Emit("user:joined", IoTo(sock', code), name,
                                  UserNames(room'[id]), <<>>, 0)>>
             /\ op' = [Op("connect", s, code, {}, {}, {}, "ok") EXCEPT !.room = id]
  /\ UNCHANGED <<slackBridge, units, closed, rooms, nRooms, ptyProcesses, shell, bridge>>

\* The transport of a rejected socket closes: no handler was registered on it.
RejectedGone(s) ==
  /\ sock[s].state = "rejected"
  /\ sock' = [sock EXCEPT ![s] = GoneSock]
  /\ emitted' = <<>>
  /\ op' = Op("rejectedGone", s, NoCode, {}, {}, {}, "")
  /\ UNCHANGED <<slackBridge, units, closed, rooms, room, nRooms, ptyProcesses, shell, bridge>>

\* ptyProcesses.get(roomCode) of the input handlers.
InputTarget(pp, code) == pp[code]

\* socket.on("terminal:input")
TerminalInput(s, data) ==
  /\ sock[s].state = "joined"
  /\ LET p == InputTarget(ptyProcesses, sock[s].roomCode)
     IN op' = Op("terminal:input", s, sock[s].roomCode, {},
                 IF p = None THEN {} ELSE {p}, {}, data)
  /\ emitted' = <<>>
  /\ UNCHANGED <<slackBridge, units, server, bridge>>

\* socket.on("terminal:resize"): creator only.
TerminalResize(s) ==
  /\ sock[s].state = "joined"
  /\ LET p == ptyProcesses[sock[s].roomCode]
         allowed == s = room[sock[s].room].creatorSocketId
     IN op' = Op("terminal:resize", s, sock[s].roomCode, {}, {},
                 IF allowed /\ p # None THEN {p} ELSE {}, "")
  /\ emitted' = <<>>
  /\ UNCHANGED <<slackBridge, units, server, bridge>>

\* ----------------------------------------------------------- shell events
\* io.to(room.code) of the shell.onData callback.
OutputTo(sk, code) == IoTo(sk, code)

\* shell.onData callback: broadcast to the socket.io room of the closure's
\* room.code, then slackBridge.onOutput.  Data can arrive until the stdout
\* pipe is drained, which may be after the exit event.
ShellData(p, data) ==
  /\ shell[p].phase \in {"running", "exited"}
  /\ LET code == shell[p].code
     IN /\ emitted' = <<Emit("terminal:output", OutputTo(sock, code), "", <<>>,
                             data, 0)>>
        /\ op' = Op("shell:data", p, code, {}, {}, {}, "")
        /\ IF slackBridge
           THEN /\ Linked(linkedRooms, code) => Len(linkedRooms[code].buffer) < MaxBuf
                /\ SetBridge(OnOutput(Bridge, code, data))
           ELSE UNCHANGED <<linkedRooms, threadToRoom, detached>>
  /\ UNCHANGED <<slackBridge, units, server, pending, nThreads>>

\* shell.onExit callback: terminal:exit, onRoomDestroyed, ptyProcesses.delete,
\* destroyRoom, all by the closure's room.code.  A killed child reports a
\* null code, sent as 0.
ShellExit(p, exitCode) ==
  /\ shell[p].phase = "running"
  /\ shell[p].killed => exitCode = 0
  /\ LET code == shell[p].code
     IN /\ emitted' = <<Emit("terminal:exit", IoTo(sock, code), "", <<>>, <<>>,
                             exitCode)>>
                      \o (IF slackBridge THEN OnRoomDestroyedPosts(Bridge, code)
                          ELSE <<>>)
        /\ SetBridge(IF slackBridge THEN OnRoomDestroyed(Bridge, code) ELSE Bridge)
        /\ ptyProcesses' = [ptyProcesses EXCEPT ![code] = None]
        /\ rooms' = DestroyRoomMap(rooms, code)
        /\ room' = DestroyRoomObjs(rooms, room, code)
        /\ shell' = [shell EXCEPT ![p].phase = "exited"]
        /\ op' = Op("shell:exit", p, code, {}, {}, {}, "")
  /\ UNCHANGED <<slackBridge, units, closed, nRooms, sock, pending, nThreads>>

\* -------------------------------------------------------------- disconnect
\* LastUserKills with the kill left out.
LastUserKills_none(pp, code) == None

\* ptyProcesses.get(roomCode) of the disconnect handler: the shell it kills.
LastUserKills(pp, code) == pp[code]

\* socket.on("disconnect"): removeUser on the captured Room object, user:left,
\* and when that object is empty: kill and delete ptyProcesses.get(roomCode),
\* onRoomDestroyed(roomCode), destroyRoom(roomCode).
Disconnect(s) ==
  /\ sock[s].state = "joined"
  /\ LET code == sock[s].roomCode
         id == sock[s].room
         objs1 == [room EXCEPT ![id] = RemoveUser(@, s)]
         empty == UserCount(objs1[id]) = 0
         p == LastUserKills(ptyProcesses, code)
     IN /\ sock' = [sock EXCEPT ![s] = GoneSock]
        /\ IF empty
           THEN /\ shell' = Kill(shell, p)
                /\ ptyProcesses' = [ptyProcesses EXCEPT ![code] = None]
                /\ emitted' = <<Emit("user:left", IoTo(sock', code),
                                     sock[s].displayName, UserNames(objs1[id]),
                                     <<>>, 0)>>
                                \o (IF slackBridge
                                    THEN OnRoomDestroyedPosts(Bridge, code) ELSE <<>>)
                /\ SetBridge(IF slackBridge THEN OnRoomDestroyed(Bridge, code)
                             ELSE Bridge)
                /\ rooms' = DestroyRoomMap(rooms, code)
                /\ room' = DestroyRoomObjs(rooms, objs1, code)
                /\ op' = [Op("disconnect", s, code, IF p = None THEN {} ELSE {p},
                             {}, {}, "empty") EXCEPT !.room = id]
           ELSE /\ room' = objs1
                /\ emitted' = <<Emit("user:left", IoTo(sock', code),
                                     sock[s].displayName, UserNames(objs1[id]),
                                     <<>>, 0)>>
                /\ op' = [Op("disconnect", s, code, {}, {}, {}, "")
                            EXCEPT !.room = id]
                /\ UNCHANGED <<shell, ptyProcesses, rooms, linkedRooms,
                               threadToRoom, detached>>
  /\ UNCHANGED <<slackBridge, units, closed, nRooms, pending, nThreads>>

\* ------------------------------------------------------ stopRoom and close
\* CodeCompanionServer.stopRoom(code) (the server without the Slack bridge)
StopRoom(code) ==
  /\ ~closed
  /\ ~slackBridge
  /\ IF GetRoom(rooms, code) = None
     THEN /\ op' = Op("stopRoom", None, code, {}, {}, {}, "false")
          /\ emitted' = <<>>
          /\ UNCHANGED <<shell, ptyProcesses, rooms, room>>
     ELSE LET p == ptyProcesses[code]
          IN /\ shell' = Kill(shell, p)
             /\ ptyProcesses' = [ptyProcesses EXCEPT ![code] = None]
             /\ emitted' = <<Emit("terminal:exit", IoTo(sock, code), "", <<>>,
                                  <<>>, 0)>>
             /\ rooms' = DestroyRoomMap(rooms, code)
             /\ room' = DestroyRoomObjs(rooms, room, code)
             /\ op' = Op("stopRoom", None, code, IF p = None THEN {} ELSE {p},
                         {}, {}, "true")
  /\ UNCHANGED <<slackBridge, units, closed, nRooms, sock, bridge>>

\* The user:left events of the disconnect handlers that io.close() runs,
\* socket by socket, after destroyAll() has emptied the registered rooms.
RECURSIVE CloseEmits(_, _, _)
CloseEmits(sk, objs, left) ==
  IF left = {} THEN <<>>
  ELSE LET s == CHOOSE x \in left : \A y \in left : x <= y
           sk1 == [sk EXCEPT ![s] = GoneSock]
           objs1 == [objs EXCEPT ![sk[s].room] = RemoveUser(@, s)]
       IN <<Emit("user:left", IoTo(sk1, sk[s].roomCode), sk[s].displayName,
                 UserNames(objs1[sk[s].room]), <<>>, 0)>>
          \o CloseEmits(sk1, objs1, left \ {s})

\* close(): kill and delete every registered shell, slackBridge.destroy(),
\* destroyAll(), io.close() (which disconnects every socket).
Close ==
  /\ ~closed
  /\ closed' = TRUE
  /\ LET ps == {ptyProcesses[c] : c \in Codes} \ {None}
         joined == {s \in Sockets : sock[s].state = "joined"}
         objs1 == DestroyAllObjs(rooms, room)
     IN /\ shell' = [i \in RoomIds |->
                       IF i \in ps THEN [shell[i] EXCEPT !.killed = TRUE] ELSE shell[i]]
        /\ op' = Op("close", None, NoCode, ps, {}, {}, "")
        /\ emitted' = CloseEmits(sock, objs1, joined)
        /\ room' = [i \in RoomIds |->
                      [objs1[i] EXCEPT !.users =
                         IF \E s \in joined : sock[s].room = i THEN <<>> ELSE @]]
        /\ sock' = [s \in Sockets |-> GoneSock]
  /\ ptyProcesses' = [c \in Codes |-> None]
  /\ rooms' = DestroyAllMap(rooms)
  /\ SetBridge(IF slackBridge THEN BridgeDestroy(Bridge, Codes) ELSE Bridge)
  /\ UNCHANGED <<slackBridge, units, nRooms, pending, nThreads>>

\* -------------------------------------------------------------------- Next
ServerStep ==
  \/ \E code \in Codes, ok \in BOOLEAN : CreateRoom(code, ok)
  \/ \E s \in Sockets, code \in Codes \cup {NoCode}, name \in Names \cup {NoName} :
       Connect(s, code, name)
  \/ \E s \in Sockets : RejectedGone(s)
  \/ \E s \in Sockets, data \in Inputs : TerminalInput(s, data)
  \/ \E s \in Sockets : TerminalResize(s)
  \/ \E s \in Sockets : Disconnect(s)
  \/ \E p \in RoomIds, data \in Chunks : ShellData(p, data)
  \/ \E p \in RoomIds, exitCode \in ExitCodes : ShellExit(p, exitCode)
  \/ Close

Next ==
  \/ ServerStep
  \/ \E code \in Codes : StopRoom(code)

Spec == Init /\ [][Next]_vars

\* --------------------------------------------------------- Slack endpoints
SlackOp(name, code, wrote, status, sigOk) ==
  [Op(name, None, code, {}, wrote, {}, status) EXCEPT !.sigOk = sigOk]

\* Whether the request's headers are present and verify against its body.
SigOk(signature, timestamp, body) ==
  /\ timestamp.present
  /\ signature.len # 0
  /\ VerifySlackSignature(SigningSecret, signature, timestamp, body) = "true"

\* app.post("/slack/commands"), a request answered without creating a room:
\* 401 unless the signature verifies (no answer when the verification throws); "join <code>" looks the room up and
\* suspends at `await chat.postMessage` before linkRoom.
SlackCommand(signature, timestamp, body) ==
  /\ slackBridge
  /\ ~closed
  /\ emitted' = <<>>
  /\ LET sigOk == SigOk(signature, timestamp, body)
     IN IF CommandThrows(signature, timestamp, body)
        THEN /\ op' = SlackOp("slack:command", NoCode, {}, "throws", sigOk)
             /\ UNCHANGED pending
        ELSE IF ~CommandAuthorized(signature, timestamp, body)
        THEN /\ op' = SlackOp("slack:command", NoCode, {}, "401", sigOk)
             /\ UNCHANGED pending
        ELSE /\ body.kind = "join"
             /\ IF GetRoom(rooms, body.code) = None
                THEN /\ op' = SlackOp("slack:command", body.code, {}, "not found",
                                      sigOk)
                     /\ UNCHANGED pending
                ELSE /\ Cardinality(pending) < MaxPending
                     /\ pending' = pending \cup
                                   {[code |-> body.code, channelId |-> "C1"]}
                     /\ op' = SlackOp("slack:command", body.code, {}, "join", sigOk)
  /\ UNCHANGED <<slackBridge, units, server, linkedRooms, threadToRoom, detached, nThreads>>

\* app.post("/slack/commands"), the default branch of an authorized request:
\* createRoom and spawn, then suspend at `await chat.postMessage`.
SlackCommandCreate(signature, timestamp, body, newCode, ok) ==
  /\ slackBridge
  /\ ~closed
  /\ CommandAuthorized(signature, timestamp, body)
  /\ body.kind # "join"
  /\ ok => nRooms < MaxRooms /\ Cardinality(pending) < MaxPending
  /\ CreateRoomInternal(newCode, ok)
  /\ pending' = IF ok THEN pending \cup {[code |-> newCode, channelId |-> "C1"]}
                ELSE pending
  /\ emitted' = <<>>
  /\ op' = SlackOp("slack:command", newCode, {},
                   IF ok THEN "create" ELSE "spawn failed",
                   SigOk(signature, timestamp, body))
  /\ UNCHANGED <<slackBridge, units, closed, sock, linkedRooms, threadToRoom, detached,
                 nThreads>>

\* The continuation of a slash command: chat.postMessage resolved with the
\* timestamp of the message it created, then linkRoom; or it rejected and the
\* handler ends there.
SlackPosted(pd, resolved) ==
  /\ pd \in pending
  /\ pending' = pending \ {pd}
  /\ IF resolved
     THEN /\ nThreads < MaxThreads
          /\ nThreads' = nThreads + 1
          /\ SetBridge(LinkRoom(Bridge, pd.code, pd.channelId, nThreads + 1))
     ELSE UNCHANGED <<linkedRooms, threadToRoom, detached, nThreads>>
  /\ emitted' = <<>>
  /\ op' = SlackOp("slack:posted", pd.code, {},
                   IF resolved THEN "linked" ELSE "failed", TRUE)
  /\ UNCHANGED <<slackBridge, units, server>>

\* handleThreadReply that writes nowhere.
HandleThreadReply_none(b, pp, ch, ts) == {}

\* handleThreadReply with the write callback the server registered:
\* ptyProcesses.get(roomCode)?.write(text + "\n").  The shells written to.
HandleThreadReply(b, pp, ch, ts) ==
  LET code == GetRoomForThread(b, ch, ts)
  IN IF code = NoCode THEN {}
     ELSE IF InputTarget(pp, code) = None THEN {} ELSE {InputTarget(pp, code)}

\* app.post("/slack/events"): the url_verification challenge, or a message
\* event with thread_ts and without bot_id handed to handleThreadReply.
SlackEvent(signature, timestamp, body) ==
  /\ slackBridge
  /\ ~closed
  /\ emitted' = <<>>
  /\ LET sigOk == SigOk(signature, timestamp, body)
     IN IF body.kind = "url_verification"
        THEN op' = SlackOp("slack:event", NoCode, {}, "challenge", sigOk)
        ELSE IF body.kind = "message" /\ body.thread # NoThread /\ ~body.bot
        THEN op' = SlackOp("slack:event", GetRoomForThread(Bridge, "C1", body.thread),
                           HandleThreadReply(Bridge, ptyProcesses, "C1", body.thread),
                           "reply", sigOk)
        ELSE op' = SlackOp("slack:event", NoCode, {}, "200", sigOk)
  /\ UNCHANGED <<slackBridge, units, server, bridge>>

\* The flush text handed to postOutput, if any: stripAnsi(buffer), non-empty.
FlushPosts(ts, buffer) ==
  LET text == StripAnsi(Concat(buffer))
  IN IF Len(text) > 0 THEN <<SlackPost("slack:output", ts, text)>> ELSE <<>>

\* The timer of a linked room's OutputBuffer fires: flush().
BufferFlush(code) ==
  /\ Linked(linkedRooms, code)
  /\ linkedRooms[code].timer
  /\ linkedRooms' = [linkedRooms EXCEPT ![code].timer = FALSE, ![code].buffer = <<>>]
  /\ emitted' = FlushPosts(linkedRooms[code].threadTs, linkedRooms[code].buffer)
  /\ op' = SlackOp("buffer:flush", code, {}, "", FALSE)
  /\ UNCHANGED <<slackBridge, units, server, threadToRoom, detached, pending, nThreads>>

\* The timer of an OutputBuffer that linkRoom replaced fires.
DetachedFlush(d) ==
  /\ d \in detached
  /\ detached' = detached \ {d}
  /\ emitted' = FlushPosts(d.threadTs, d.buffer)
  /\ op' = SlackOp("buffer:flush", NoCode, {}, "detached", FALSE)
  /\ UNCHANGED <<slackBridge, units, server, linkedRooms, threadToRoom, pending, nThreads>>

SlackStep ==
  \/ \E r \in CommandRequests : SlackCommand(r[2], r[1], r[3])
  \/ \E r \in CommandRequests, newCode \in Codes, ok \in BOOLEAN :
       SlackCommandCreate(r[2], r[1], r[3], newCode, ok)
  \/ \E pd \in pending, resolved \in BOOLEAN : SlackPosted(pd, resolved)
  \/ \E r \in EventRequests : SlackEvent(r[2], r[1], r[3])
  \/ \E code \in Codes : BufferFlush(code)
  \/ \E d \in detached : DetachedFlush(d)

\* The callbacks of the server that carries the bridge.
SlackServerStep ==
  \/ \E code \in Codes, ok \in BOOLEAN : CreateRoom(code, ok)
  \/ \E s \in SlackSockets, code \in Codes \cup {NoCode}, name \in SlackNames :
       Connect(s, code, name)
  \/ \E s \in SlackSockets : RejectedGone(s)
  \/ \E s \in SlackSockets, data \in Inputs : TerminalInput(s, data)
  \/ \E s \in SlackSockets : TerminalResize(s)
  \/ \E s \in SlackSockets : Disconnect(s)
  \/ \E p \in RoomIds, data \in Chunks : ShellData(p, data)
  \/ \E p \in RoomIds, exitCode \in SlackExitCodes : ShellExit(p, exitCode)
  \/ Close

NextSlack == SlackServerStep \/ SlackStep

SpecSlack == InitSlack /\ [][NextSlack]_vars

\* ------------------------------------------------- an OutputBuffer on its own
\* append(data) by the owner of the buffer.
BufAppend(data) ==
  /\ ob.appends < MaxAppends
  /\ ob' = [ObAppend(ob, data) EXCEPT !.burst = Append(@, data),
                                      !.lastAppend = ob.now,
                                      !.appends = @ + 1,
                                      !.last = "append"]
  /\ UNCHANGED <<slackBridge, server, bridge, emitted, op, call, tunnel, relay, mcp, capped>>

\* destroy() by the owner of the buffer.
BufDestroy ==
  /\ ob.last # "destroy"
  /\ ob' = [ObDestroy(ob) EXCEPT !.burst = <<>>, !.last = "destroy"]
  /\ UNCHANGED <<slackBridge, server, bridge, emitted, op, call, tunnel, relay, mcp, capped>>

\* A timer set by append comes due and runs flush().
BufTimerFires(d) ==
  /\ d \in ob.timers
  /\ d = ob.now
  /\ ob' = [ObFlush([ob EXCEPT !.timers = @ \ {d}])
              EXCEPT !.done = ob.burst, !.burst = <<>>, !.last = "flush"]
  /\ UNCHANGED <<slackBridge, server, bridge, emitted, op, call, tunnel, relay, mcp, capped>>

\* The clock advances; a timer runs at the tick it is due.
BufTick ==
  /\ ob.now < MaxTime
  /\ \A d \in ob.timers : ob.now < d
  /\ ob' = [ob EXCEPT !.now = @ + 1, !.last = "tick"]
  /\ UNCHANGED <<slackBridge, server, bridge, emitted, op, call, tunnel, relay, mcp, capped>>

NextBuffer ==
  \/ \E data \in BufChunks : BufAppend(data)
  \/ BufDestroy
  \/ \E d \in 1..(MaxTime + Delay) : BufTimerFires(d)
  \/ BufTick

SpecBuffer == Init /\ [][NextBuffer]_vars

\* ------------------------------------------ verifySlackSignature on its own
InitVerify ==
  /\ slackBridge = FALSE
  /\ InitServer
  /\ ob = NewOutputBuffer
  /\ tunnel = NewTunnel
  /\ relay = NewRelay
  /\ mcp = NewMcp
  /\ capped = NewCapped
  /\ call \in CallInputs

\* The call runs.
VerifyCall ==
  /\ call.result = "none"
  /\ call' = [call EXCEPT !.result =
                VerifySlackSignature(call.secret, call.signature, call.timestamp,
                                     call.body)]
  /\ UNCHANGED <<slackBridge, server, bridge, emitted, op, ob, tunnel, relay, mcp, capped>>

NextVerify == VerifyCall

SpecVerify == InitVerify /\ [][NextVerify]_vars

\* --------------------------------------------- a TunnelManager on its own
\* The error event of a failed spawn is emitted on the next tick, ahead of
\* every other callback: nothing else runs while one is due.
NoSpawnError(t) == \A h \in Helpers : t.child[h].phase # "nospawn"

Start(spawned) ==
  /\ NoSpawnError(tunnel)
  /\ IsRunning(tunnel) \/ tunnel.n < MaxHelpers
  /\ tunnel' = TunnelStart(tunnel, spawned)
  /\ UNCHANGED <<slackBridge, server, bridge, emitted, op, ob, call, relay, mcp, capped>>

Stop ==
  /\ NoSpawnError(tunnel)
  /\ tunnel' = [TunnelStop(tunnel) EXCEPT !.last = TunnelOp("stop", None, "", 0)]
  /\ UNCHANGED <<slackBridge, server, bridge, emitted, op, ob, call, relay, mcp, capped>>

\* onData with a chunk that matches URL_PATTERN, on a helper whose start()
\* has not settled (the listeners do nothing afterwards): settled,
\* clearTimeout, _url = match, resolve.
HelperUrl(h) ==
  /\ NoSpawnError(tunnel)
  /\ tunnel.child[h].phase = "alive"
  /\ ~tunnel.child[h].settled
  /\ tunnel' = [tunnel EXCEPT !.child[h].settled = TRUE, !.child[h].timer = FALSE,
                              !.child[h].result = "url", !.url = h,
                              !.last = TunnelOp("data", h, "url", 0)]
  /\ UNCHANGED <<slackBridge, server, bridge, emitted, op, ob, call, relay, mcp, capped>>

\* child.on("error"): the error event of a spawn that failed, ENOENT or
\* another cause.
HelperError(h, enoent) ==
  /\ tunnel.child[h].phase = "nospawn"
  /\ LET outcome == IF enoent THEN "not installed" ELSE "error"
         t1 == IF tunnel.child[h].settled THEN tunnel
               ELSE ErrorSettles(tunnel, h, outcome)
     IN tunnel' = [t1 EXCEPT !.child[h].phase = "errored",
                             !.last = TunnelOp("error", h, outcome, 0)]
  /\ UNCHANGED <<slackBridge, server, bridge, emitted, op, ob, call, relay, mcp, capped>>

\* child.on("close"), both handlers in the order they were registered: the
\* helper exited on its own or after kill(), or its spawn had failed.
HelperClose(h, code) ==
  /\ NoSpawnError(tunnel)
  /\ tunnel.child[h].phase \in {"alive", "errored"}
  /\ LET t1 == IF tunnel.child[h].settled THEN tunnel
               ELSE ErrorSettles(tunnel, h, "exit")
     IN tunnel' = [t1 EXCEPT !.process = None, !.url = None,
                             !.child[h].phase = "closed",
                             !.last = TunnelOp("close", h,
                                               IF tunnel.child[h].settled THEN ""
                                               ELSE "exit", code)]
  /\ UNCHANGED <<slackBridge, server, bridge, emitted, op, ob, call, relay, mcp, capped>>

\* The startup timeout: START_TIMEOUT_MS have passed since the start() of a
\* helper that runs, and the start() has not settled: this.stop(), reject.
HelperTimeout(h) ==
  /\ NoSpawnError(tunnel)
  /\ tunnel.child[h].phase = "alive"
  /\ tunnel.child[h].timer
  /\ tunnel' = [TunnelStop([tunnel EXCEPT !.child[h].settled = TRUE,
                                          !.child[h].timer = FALSE,
                                          !.child[h].result = "timeout"])
                  EXCEPT !.last = TunnelOp("timeout", h, "timeout", 0)]
  /\ UNCHANGED <<slackBridge, server, bridge, emitted, op, ob, call, relay, mcp, capped>>

TunnelStep ==
  \/ \E spawned \in BOOLEAN : Start(spawned)
  \/ Stop
  \/ \E h \in Helpers : HelperUrl(h)
  \/ \E h \in Helpers, enoent \in BOOLEAN : HelperError(h, enoent)
  \/ \E h \in Helpers, code \in ExitCodes : HelperClose(h, code)
  \/ \E h \in Helpers : HelperTimeout(h)

SpecTunnel == Init /\ [][TunnelStep]_vars

\* ------------------------------------------------- the MCP entry point
\* handleCreateSession up to its return or to `await deps.tunnel.start`:
\* getServer() (createServer when nothing is cached), srv.createRoom (which
\* does not look at whether the server was closed), then the tunnel.
HandleCreateSession(code, ok, wantTunnel, spawned) ==
  LET id == nRooms + 1
      rs0 == IF mcp.server THEN rooms ELSE [c \in Codes |-> None]
      pp0 == IF mcp.server THEN ptyProcesses ELSE [c \in Codes |-> None]
      rs1 == CreateRoomMap(rs0, code, id)
      starts == ok /\ wantTunnel /\ ~IsRunning(tunnel)
  IN /\ mcp.create.phase = "idle"
     /\ NoSpawnError(tunnel)
     /\ nRooms < MaxRooms
     /\ starts => tunnel.n < MaxHelpers
     /\ ~starts => spawned
     /\ closed' = (mcp.server /\ closed)
     /\ IF ok
        THEN /\ nRooms' = id
             /\ rooms' = rs1
             /\ room' = [room EXCEPT ![id] = NewRoom(code)]
             /\ ptyProcesses' = [pp0 EXCEPT ![code] = id]
             /\ shell' = [shell EXCEPT ![id] =
                            [phase |-> "running", killed |-> FALSE, code |-> code]]
        ELSE /\ rooms' = SpawnFailedMap(rs1, code)
             /\ ptyProcesses' = pp0
             /\ UNCHANGED <<nRooms, room, shell>>
     /\ tunnel' = IF starts THEN TunnelStart(tunnel, spawned) ELSE tunnel
     /\ mcp' = [mcp EXCEPT
          !.server = TRUE,
          !.create = IF starts
                     THEN [phase |-> "starting", h |-> tunnel.n + 1, code |-> code]
                     ELSE @,
          !.last = IF ~ok
                   THEN McpResult("createSession", "error", NoCode, None, "none",
                                  ~mcp.server)
                   ELSE IF starts
                   THEN McpResult("createSession", "pending", code, None, "none",
                                  ~mcp.server)
                   ELSE McpResult("createSession", "ok", code,
                                  IF IsRunning(tunnel) THEN tunnel.url ELSE None,
                                  "none", ~mcp.server)]
     /\ UNCHANGED <<slackBridge, sock, bridge, emitted, op, ob, call, relay, capped>>

\* handleCreateSession after `await deps.tunnel.start`: the start() has
\* resolved or rejected, and the handler returns.
HandleCreateSessionResumes ==
  /\ mcp.create.phase = "starting"
  /\ tunnel.child[mcp.create.h].result # "pending"
  /\ mcp' = [mcp EXCEPT
       !.create = [phase |-> "idle", h |-> None, code |-> NoCode],
       !.last = McpResult("createSession", "ok", mcp.create.code,
                          Awaited(tunnel, mcp.create.h),
                          tunnel.child[mcp.create.h].result, mcp.last.fresh)]
  /\ UNCHANGED <<slackBridge, server, bridge, emitted, op, ob, call, tunnel, relay, capped>>

\* handleStopServer up to its return or to `await srv.close()`; of close(),
\* everything up to httpServer.close has run: every registered shell killed
\* and its handle deleted, destroyAll(), io.close().
HandleStopServer ==
  /\ ~mcp.closing
  /\ NoSpawnError(tunnel)
  /\ IF mcp.server
     THEN LET ps == {ptyProcesses[c] : c \in Codes} \ {None}
          IN /\ closed' = TRUE
             /\ shell' = [i \in RoomIds |->
                            IF i \in ps THEN [shell[i] EXCEPT !.killed = TRUE]
                            ELSE shell[i]]
             /\ ptyProcesses' = [c \in Codes |-> None]
             /\ rooms' = DestroyAllMap(rooms)
             /\ room' = DestroyAllObjs(rooms, room)
             /\ sock' = [s \in Sockets |-> GoneSock]
             /\ mcp' = [mcp EXCEPT
                  !.closing = TRUE,
                  !.last = McpResult("stopServer", "pending", NoCode, None, "none",
                                     FALSE)]
             /\ UNCHANGED <<nRooms, tunnel>>
     ELSE /\ tunnel' = [TunnelStop(tunnel) EXCEPT !.last = TunnelOp("stop", None, "", 0)]
          /\ mcp' = [mcp EXCEPT
               !.last = McpResult("stopServer", "ok", NoCode, None, "none", FALSE)]
          /\ UNCHANGED server
  /\ UNCHANGED <<slackBridge, bridge, emitted, op, ob, call, relay, capped>>

\* handleStopServer after `await srv.close()`: clearServer(), tunnel.stop().
HandleStopServerResumes ==
  /\ mcp.closing
  /\ NoSpawnError(tunnel)
  /\ tunnel' = [TunnelStop(tunnel) EXCEPT !.last = TunnelOp("stop", None, "", 0)]
  /\ mcp' = [mcp EXCEPT
       !.server = FALSE,
       !.closing = FALSE,
       !.last = McpResult("stopServer", "ok", NoCode, None, "none", FALSE)]
  /\ UNCHANGED <<slackBridge, server, bridge, emitted, op, ob, call, relay, capped>>

McpStep ==
  \/ \E code \in Codes, ok, wantTunnel, spawned \in BOOLEAN :
       HandleCreateSession(code, ok, wantTunnel, spawned)
  \/ HandleCreateSessionResumes
  \/ HandleStopServer
  \/ HandleStopServerResumes
  \/ \E h \in Helpers : HelperUrl(h)
  \/ \E h \in Helpers, enoent \in BOOLEAN : HelperError(h, enoent)
  \/ \E h \in Helpers, code \in ExitCodes : HelperClose(h, code)
  \/ \E h \in Helpers : HelperTimeout(h)

SpecMcp == Init /\ [][McpStep]_vars

\* -------------------------------------- the room with MAX_USERS on its own
\* io.on("connection") of that variant, with both query fields present:
\* "not found" once the room has left the registry, "Room is full" when
\* addUser returns false (each followed by socket.disconnect()), else join
\* and user:joined.
CappedConnect(s, name) ==
  /\ capped.state[s] = "new"
  /\ LET r == AddUserCapped(capped.room, s, name)
     IN capped' =
          IF ~capped.live
          THEN [capped EXCEPT
                  !.state[s] = "gone",
                  !.last = [event |-> "error:room", who |-> s,
                            message |-> "not found", added |-> FALSE]]
          ELSE IF ~r.ok
          THEN [capped EXCEPT
                  !.state[s] = "gone",
                  !.last = [event |-> "error:room", who |-> s,
                            message |-> "Room is full", added |-> FALSE]]
          ELSE [capped EXCEPT
                  !.room = r.room,
                  !.state[s] = "joined",
                  !.last = [event |-> "user:joined", who |-> s,
                            message |-> name, added |-> TRUE]]
  /\ UNCHANGED <<slackBridge, server, bridge, emitted, op, ob, call, tunnel, relay, mcp>>

\* socket.on("disconnect") of that variant: removeUser, user:left, and the
\* room destroyed when it is empty.
CappedDisconnect(s) ==
  /\ capped.state[s] = "joined"
  /\ LET r == RemoveUser(capped.room, s)
     IN capped' = [capped EXCEPT
          !.room = r,
          !.live = @ /\ UserCount(r) > 0,
          !.state[s] = "gone",
          !.last = [event |-> "user:left", who |-> s, message |-> "",
                    added |-> FALSE]]
  /\ UNCHANGED <<slackBridge, server, bridge, emitted, op, ob, call, tunnel, relay, mcp>>

CappedStep ==
  \/ \E s \in CappedSockets, name \in Names : CappedConnect(s, name)
  \/ \E s \in CappedSockets : CappedDisconnect(s)

SpecCapped == Init /\ [][CappedStep]_vars

\* ------------------------------------------------ the relay on its own
\* The shell writes its next chunk: the "data" event runs the callback.
RelayData ==
  /\ relay.chunks < MaxChunks
  /\ relay' = [DataCallback(relay, relay.chunks + 1) EXCEPT !.chunks = @ + 1]
  /\ UNCHANGED <<slackBridge, server, bridge, emitted, op, ob, call, tunnel, mcp, capped>>

\* A connection is admitted to the room: socket.join(roomCode).
RelayJoin(s) ==
  /\ relay.state[s] = "new"
  /\ relay' = [relay EXCEPT !.state[s] = "joined", !.since[s] = relay.chunks]
  /\ UNCHANGED <<slackBridge, server, bridge, emitted, op, ob, call, tunnel, mcp, capped>>

\* The client of s receives the next packet of its connection.
RelayReceive(s) ==
  /\ relay.state[s] = "joined"
  /\ relay.wire[s] # <<>>
  /\ relay' = [relay EXCEPT !.wire[s] = Tail(@),
                            !.got[s] = Append(@, Head(relay.wire[s]))]
  /\ UNCHANGED <<slackBridge, server, bridge, emitted, op, ob, call, tunnel, mcp, capped>>

\* The connection of s ends; what was not received is lost with it.
RelayLeave(s) ==
  /\ relay.state[s] = "joined"
  /\ relay' = [relay EXCEPT !.state[s] = "gone", !.wire[s] = <<>>]
  /\ UNCHANGED <<slackBridge, server, bridge, emitted, op, ob, call, tunnel, mcp, capped>>

RelayStep ==
  \/ RelayData
  \/ \E s \in Sockets : RelayJoin(s)
  \/ \E s \in Sockets : RelayReceive(s)
  \/ \E s \in Sockets : RelayLeave(s)

SpecRelay == Init /\ [][RelayStep]_vars

\* ============================================================== properties
\* The connections admitted to Room object `id` and not yet disconnected.
Attached(sk, id) == {s \in Sockets : sk[s].state = "joined" /\ sk[s].room = id}

\* Room object `id` is the one the registry holds under its code.
Live(rs, objs, id) == id # None /\ rs[objs[id].code] = id

C9_RejectedConnection ==
  [][/\ \A s \in Sockets, code \in Codes \cup {NoCode}, name \in Names \cup {NoName} :
          (/\ Connect(s, code, name)
           /\ (code = NoCode \/ name = NoName \/ GetRoom(rooms, code) = None))
          => (/\ Len(emitted') = 1
              /\ emitted'[1].event = "error:room"
              /\ emitted'[1].to = {s}
              /\ sock'[s].state = "rejected"
              /\ \A t \in Sockets \ {s} : sock'[t] = sock[t]
              /\ UNCHANGED <<rooms, room, ptyProcesses, shell>>)
     /\ \A s \in Sockets :
          (sock[s].state = "rejected" /\ op'.name = "rejectedGone" /\ op'.who = s)
          => (/\ sock'[s].state = "gone"
              /\ emitted' = <<>>
              /\ \A t \in Sockets \ {s} : sock'[t] = sock[t]
              /\ UNCHANGED <<rooms, room, ptyProcesses, shell>>)]_vars

\* A rejected socket has disconnected while a room with a viewer is live.
C9_Witness ==
  /\ op.name = "rejectedGone"
  /\ \E c \in Codes : rooms[c] # None /\ Attached(sock, rooms[c]) # {}

\* The roster `users` names exactly the connections in `members`, each once.
RosterOf(users, sk, members) ==
  /\ Len(users) = Cardinality(members)
  /\ \E f \in [1..Len(users) -> members] :
       /\ \A i, j \in 1..Len(users) : f[i] = f[j] => i = j
       /\ \A i \in 1..Len(users) : users[i] = sk[f[i]].displayName

\* C2: of the exit callback and the last-viewer disconnect of one room, the
\* one that runs second changes nothing: the room is no longer in the
\* registry, the registry and the handle map stay as they are, kill is called
\* on no process, and no other room's membership changes.  The disconnect
\* runs second when the room's process has exited; the exit callback runs
\* second when every viewer the room had has left and its process was killed.
C2_SecondHandlerChangesNothing ==
  [][\A p \in RoomIds :
       (\/ /\ op'.name = "disconnect" /\ op'.room = p
           /\ shell[p].phase = "exited"
           /\ Attached(sock, p) = {op'.who}
        \/ /\ op'.name = "shell:exit" /\ op'.who = p
           /\ shell[p].killed
           /\ room[p].creatorSocketId # None
           /\ Attached(sock, p) = {})
       => (/\ \A c \in Codes : rooms[c] # p
           /\ rooms' = rooms
           /\ ptyProcesses' = ptyProcesses
           /\ op'.killed = {}
           /\ \A q \in RoomIds \ {p} : room'[q] = room[q])]_vars

\* C3: a write from terminal:input or from a thread reply goes only to a
\* process whose room is in the registry, and a room leaves the registry only
\* when its process has exited or been killed by the end of that step.
C3_NoWriteToFreedRoom ==
  [][/\ op'.name \in {"terminal:input", "slack:event"}
        => \A p \in op'.wrote : Live(rooms', room', p)
     /\ \A c \in Codes :
          (rooms[c] # None /\ rooms'[c] # rooms[c])
          => (shell'[rooms[c]].phase = "exited" \/ shell'[rooms[c]].killed)]_vars

\* C4: a request on /slack/commands or /slack/events creates a room, links a
\* thread or writes to a process only if verifySlackSignature is true for its
\* signature, timestamp and body.
C4_SlackRequestsVerified ==
  (/\ op.name \in {"slack:command", "slack:event", "slack:posted"}
   /\ (op.status \in {"create", "spawn failed", "join", "linked"} \/ op.wrote # {}))
  => op.sigOk

\* C5: a chunk the process of room R emits goes as terminal:output to exactly
\* the connections attached to R: every viewer of R, no viewer of another
\* room, no rejected connection.
C5_OutputToOwnRoomOnly ==
  op.name = "shell:data"
  => (/\ Len(emitted) >= 1
      /\ emitted[1].event = "terminal:output"
      /\ emitted[1].to = Attached(sock, op.who))

\* C6: once a room with code c has left the registry, getRoom(c) stays absent
\* in every later state, and no two processes are ever spawned under one
\* code.
C6_CodeNeverReused ==
  [][/\ \A c \in Codes :
          ((\E i \in 1..nRooms : room[i].code = c) /\ GetRoom(rooms, c) = None)
          => GetRoom(rooms', c) = None
     /\ \A i, j \in 1..nRooms' : i # j => shell'[i].code # shell'[j].code]_vars

\* C7: the registry and the handle map hold the same codes, and every process
\* that has neither exited nor been killed is the handle under a registered
\* code.
C7_RegistryMatchesHandles ==
  /\ {c \in Codes : rooms[c] # None} = {c \in Codes : ptyProcesses[c] # None}
  /\ \A p \in RoomIds :
       (shell[p].phase = "running" /\ ~shell[p].killed)
       => \E c \in Codes : rooms[c] # None /\ ptyProcesses[c] = p

\* C8: user:joined and user:left carry the name of the connection that joined
\* or left and a roster naming exactly the connections attached to the room
\* after the step; the broadcast reaches all of them.
C8_PresenceRoster ==
  [][\A s \in Sockets :
       /\ (op'.name = "connect" /\ op'.who = s /\ op'.status = "ok")
          => (/\ emitted'[1].event = "user:joined"
              /\ emitted'[1].name = sock'[s].displayName
              /\ s \in Attached(sock', op'.room)
              /\ RosterOf(emitted'[1].users, sock', Attached(sock', op'.room))
              /\ Attached(sock', op'.room) \subseteq emitted'[1].to)
       /\ (op'.name = "disconnect" /\ op'.who = s)
          => (/\ emitted'[1].event = "user:left"
              /\ emitted'[1].name = sock[s].displayName
              /\ s \notin Attached(sock', op'.room)
              /\ RosterOf(emitted'[1].users, sock', Attached(sock', op'.room))
              /\ Attached(sock', op'.room) \subseteq emitted'[1].to)]_vars

\* C10: when the spawn fails the request fails and the registry and the
\* handle map are as before the request; the attempted code is not resolvable
\* and has no handle.
C10_SpawnFailureRollsBack ==
  [][(op'.name = "createRoom" /\ op'.status = "500")
     => (/\ rooms' = rooms
         /\ ptyProcesses' = ptyProcesses
         /\ GetRoom(rooms', op'.code) = None
         /\ ptyProcesses'[op'.code] = None)]_vars

\* C12: a flush comes only after one or more appends, one full delay after
\* the last of them and at no earlier tick; it hands the sink the stripped
\* concatenation of all chunks appended since the previous flush, in append
\* order (nothing when that is empty), and leaves no second flush pending.
C12_BurstFlushedOnce ==
  [][ob'.last = "flush"
     => (/\ ob.burst # <<>>
         /\ ob'.now = ob.lastAppend + Delay
         /\ ob'.timers = {}
         /\ LET text == StripAnsi(Concat(ob.burst))
            IN ob'.sink = IF text # <<>> THEN Append(ob.sink, text)
                          ELSE ob.sink)]_vars

\* A burst of two or more appends was flushed to the sink as one text.
C12_Witness ==
  /\ ob.last = "flush"
  /\ Len(ob.done) >= 2
  /\ ob.sink # <<>>
  /\ ob.sink[Len(ob.sink)] = StripAnsi(Concat(ob.done))

\* C13: destroy() leaves no timer pending, an empty buffer and the sink as it
\* was; afterwards the buffer holds only chunks appended since, and a timer
\* is pending only for such chunks, so nothing appended before the destroy
\* reaches the sink.
C13_DestroyDropsPending ==
  [][/\ ob'.last = "destroy"
        => (/\ ob'.timers = {}
            /\ ob'.timer = None
            /\ ob'.buffer = <<>>
            /\ ob'.sink = ob.sink)
     /\ ob'.buffer = Concat(ob'.burst)
     /\ ob'.timers # {} => ob'.burst # <<>>]_vars

\* destroy() ran on a buffer that held text with its timer pending, and the
\* clock has since passed the tick that timer was due.
C13_Witness ==
  /\ ob.appends >= 1
  /\ ob.burst = <<>>
  /\ ob.sink = <<>>
  /\ ob.last = "tick"
  /\ ob.done = <<>>
  /\ ob.now > ob.lastAppend + Delay

\* C14: a flush whose buffer strips to the empty string hands nothing to the
\* sink, empties the buffer and clears the timer.
C14_EmptyFlushDropsBytes ==
  [][(ob'.last = "flush" /\ StripAnsi(ob.buffer) = <<>>)
     => (/\ ob'.sink = ob.sink
         /\ ob'.buffer = <<>>
         /\ ob'.timer = None)]_vars

\* A burst of two chunks that make up one escape sequence was flushed: the
\* sink got nothing and the buffer is empty.
C14_Witness ==
  /\ ob.last = "flush"
  /\ Len(ob.done) = 2
  /\ StripAnsi(Concat(ob.done)) = <<>>
  /\ ob.buffer = <<>>
  /\ ob.sink = <<>>

\* C19: verifySlackSignature gives true exactly when the timestamp is
\* numeric, at most 300 seconds from now, and the signature is the one made
\* from the secret, the timestamp and the body; it gives false for a
\* signature over another body or under another secret, for a timestamp 600
\* seconds old or not a number, and for a signature cut short.
C19_VerifySignature ==
  call.result # "none"
  => (/\ call.result = "true"
         <=> (/\ call.timestamp.numeric
              /\ Abs(NowSeconds - call.timestamp.value) <= 300
              /\ call.signature =
                   MakeSignature(call.secret, call.timestamp, call.body))
      /\ (\/ \E b \in CallBodies \ {call.body} :
               call.signature = MakeSignature(call.secret, call.timestamp, b)
          \/ \E k \in CallSecrets \ {call.secret} :
               call.signature = MakeSignature(k, call.timestamp, call.body)
          \/ call.timestamp.value = NowSeconds - 600
          \/ ~call.timestamp.numeric
          \/ call.signature.len < SignatureLength)
         => call.result = "false")

\* A call with the right signature at the age limit has given true.
C19_Witness ==
  /\ call.result = "true"
  /\ call.timestamp.value = NowSeconds - MAX_SIGNATURE_AGE_SECONDS

\* C11: when the process of a room exits, that step sends terminal:exit with
\* the exit code to every connection attached to the room, and after it
\* neither the registry nor the handle map holds the room or its process; no
\* state has a room in the registry whose process has exited.
C11_ExitRemovesRoom ==
  [][/\ \A p \in RoomIds, exitCode \in ExitCodes :
          ShellExit(p, exitCode)
          => (/\ emitted'[1].event = "terminal:exit"
              /\ emitted'[1].exitCode = exitCode
              /\ Attached(sock, p) \subseteq emitted'[1].to
              /\ \A c \in Codes : rooms'[c] # p /\ ptyProcesses'[c] # p)
     /\ \A p \in RoomIds :
          shell'[p].phase = "exited" => \A c \in Codes : rooms'[c] # p]_vars

\* The process of a registered room has just exited with code 1 while a
\* viewer was attached, and the viewer was sent terminal:exit.
C11_Witness ==
  /\ op.name = "shell:exit"
  /\ Attached(sock, op.who) # {}
  /\ Len(emitted) = 1
  /\ emitted[1].exitCode = 1
  /\ emitted[1].to = Attached(sock, op.who)

\* The codes linked to thread ts of channel ch.
LinkedTo(lr, ch, ts) ==
  {c \in Codes : Linked(lr, c) /\ lr[c].channelId = ch /\ lr[c].threadTs = ts}

\* C15: in every state of the bridge the two maps are inverse of each other:
\* a code is linked to (channel, thread) exactly when that (channel, thread)
\* resolves to the code.
C15_MappingsInverse ==
  \A c \in Codes, k \in ThreadKeys :
    c \in LinkedTo(linkedRooms, k[1], k[2]) <=> threadToRoom[k] = c

\* C16: a step that unlinks a code leaves no (channel, thread) resolving to
\* it and no flush pending of a coalescer made for it, and unlinkRoom of the
\* code on the state it leaves changes nothing.
C16_UnlinkRemovesAll ==
  [][\A c \in Codes :
       (Linked(linkedRooms, c) /\ ~Linked(linkedRooms', c))
       => (/\ \A k \in ThreadKeys : threadToRoom'[k] # c
           /\ \A d \in detached' : d.code # c
           /\ LET b == [lr |-> linkedRooms', ttr |-> threadToRoom', det |-> detached']
              IN UnlinkRoom(b, c) = b)]_vars

\* C17: a thread reply is written to the process of the room currently linked
\* to its (channel, thread) and to nothing else; when no room is linked to
\* the thread the write callback is not invoked.
C17_ReplyToLinkedRoom ==
  [][\A r \in EventRequests :
       (/\ SlackEvent(r[2], r[1], r[3])
        /\ r[3].kind = "message" /\ r[3].thread # NoThread /\ ~r[3].bot)
       => LET cs == LinkedTo(linkedRooms, "C1", r[3].thread)
          IN IF cs = {}
             THEN op'.code = NoCode /\ op'.wrote = {}
             ELSE \E c \in cs :
                    /\ op'.code = c
                    /\ op'.wrote = IF ptyProcesses[c] = None THEN {}
                                   ELSE {ptyProcesses[c]}]_vars

\* C18: a "Session ended." post goes to the thread of a link that the same
\* step removes, once in that step; a thread that is no longer linked is
\* never linked again; and onRoomDestroyed for a code that is not linked, from
\* the exit callback or from the last-viewer disconnect, posts nothing and
\* leaves both maps as they are.
C18_SessionEndedOnce ==
  [][/\ \A i \in 1..Len(emitted') :
          emitted'[i].event = "slack:ended"
          => (/\ \E c \in Codes :
                   /\ Linked(linkedRooms, c)
                   /\ linkedRooms[c].threadTs = emitted'[i].thread
                   /\ ~Linked(linkedRooms', c)
              /\ \A j \in 1..Len(emitted') : emitted'[j] = emitted'[i] => j = i)
     /\ \A th \in 1..nThreads :
          LinkedTo(linkedRooms, "C1", th) = {}
          => LinkedTo(linkedRooms', "C1", th) = {}
     /\ (/\ \/ op'.name = "shell:exit"
            \/ op'.name = "disconnect" /\ op'.status = "empty"
         /\ ~Linked(linkedRooms, op'.code))
        => (/\ \A i \in 1..Len(emitted') : emitted'[i].event # "slack:ended"
            /\ UNCHANGED <<linkedRooms, threadToRoom, detached>>)]_vars

\* The only room ever created was linked to the only thread ever created;
\* its last viewer left, which posted the notice and removed the link, and
\* the exit callback has now run and posted nothing.
C18_Witness ==
  /\ ~closed
  /\ op.name = "shell:exit"
  /\ shell[op.who].killed
  /\ nRooms = 1 /\ nThreads = 1 /\ pending = {}
  /\ ~Linked(linkedRooms, op.code)
  /\ \A i \in 1..Len(emitted) : emitted[i].event # "slack:ended"

\* C20: a slash command whose signature header or timestamp header is
\* missing, or for which verifySlackSignature gives false (the step records
\* the verdict on the request's headers, and the exception of the
\* verification apart), is answered 401 without reading its body, and the
\* registry, the Room objects, the handle map, the processes, both thread
\* maps and the suspended commands stay as they are.
C20_UnsignedCommandRejected ==
  [][(op'.name = "slack:command" /\ ~op'.sigOk /\ op'.status # "throws")
     => (/\ op'.status = "401"
         /\ op'.code = NoCode
         /\ UNCHANGED <<rooms, room, nRooms, ptyProcesses, shell, linkedRooms,
                        threadToRoom, detached, pending>>)]_vars

\* A slash command was answered 401 while a room is registered and linked.
C20_Witness ==
  /\ op.name = "slack:command"
  /\ op.status = "401"
  /\ \E c \in Codes : rooms[c] # None /\ Linked(linkedRooms, c)

\* The helpers the manager launched that run and were not killed; a helper
\* whose spawn failed counts until its error event is delivered.
HelpersUp(t) ==
  {h \in Helpers : t.child[h].phase \in {"alive", "nospawn"} /\ ~t.child[h].killed}

\* The helper processes that run and were not killed.
HelpersAlive(t) ==
  {h \in Helpers : t.child[h].phase = "alive" /\ ~t.child[h].killed}

\* C21: at most one helper launched by the manager runs unkilled at any time,
\* and start() while isRunning rejects with "already running", launches no
\* helper and leaves url and isRunning as they were.
C21_OneHelperAtATime ==
  [][/\ Cardinality(HelpersAlive(tunnel')) <= 1
     /\ (tunnel'.last.name = "start" /\ IsRunning(tunnel))
        => (/\ tunnel'.last.outcome = "already running"
            /\ tunnel'.n = tunnel.n
            /\ tunnel'.child = tunnel.child
            /\ tunnel'.url = tunnel.url
            /\ IsRunning(tunnel'))]_vars

\* C22: isRunning is true exactly when a helper launched by the manager runs
\* and was not stopped; url is set only while the helper that printed it
\* runs; and when a helper closes on its own after its start() resolved,
\* isRunning is false and url is null.
C22_StateReflectsHelper ==
  [][/\ IsRunning(tunnel') <=> HelpersUp(tunnel') # {}
     /\ tunnel'.url # None => tunnel'.child[tunnel'.url].phase = "alive"
     /\ \A h \in Helpers :
          (/\ tunnel'.last.name = "close" /\ tunnel'.last.h = h
           /\ tunnel.child[h].result = "url" /\ ~tunnel.child[h].killed)
          => (~IsRunning(tunnel') /\ tunnel'.url = None)]_vars

\* C23: when the startup timeout of a running helper passes with its start()
\* not settled, that start() rejects with the timeout error, the helper has
\* been killed, isRunning is false and url is null.
C23_TimeoutKillsHelper ==
  [][\A h \in Helpers :
       (tunnel'.last.name = "timeout" /\ tunnel'.last.h = h)
       => (/\ tunnel'.child[h].result = "timeout"
           /\ tunnel'.child[h].killed
           /\ ~IsRunning(tunnel')
           /\ tunnel'.url = None)]_vars

\* C24: when a helper reports a spawn error or closes before its start() has
\* settled, the start() rejects, with the not-installed message for ENOENT,
\* the error itself for another spawn error and the exit code for a close,
\* and isRunning is false and url is null after the event.
C24_EarlyFailureRejects ==
  [][\A h \in Helpers :
       (/\ tunnel'.last.h = h
        /\ tunnel'.last.name \in {"error", "close"}
        /\ ~tunnel.child[h].settled)
       => (/\ tunnel'.last.name = "close"
              => (/\ tunnel'.child[h].result = "exit"
                  /\ tunnel'.last.code \in ExitCodes)
           /\ tunnel'.last.name = "error"
              => (/\ tunnel'.child[h].result \in {"not installed", "error"}
                  /\ tunnel'.child[h].result = tunnel'.last.outcome)
           /\ ~IsRunning(tunnel')
           /\ tunnel'.url = None)]_vars

\* A start() was rejected because cloudflared is not installed: isRunning is
\* false and url is null.
C24_Witness ==
  /\ tunnel.last.name = "error"
  /\ tunnel.last.outcome = "not installed"
  /\ tunnel.child[tunnel.last.h].result = "not installed"
  /\ ~IsRunning(tunnel)
  /\ tunnel.url = None

\* C25: after stop(), in whatever state it is called, isRunning is false and
\* url is null, and a second stop() changes nothing.
C25_StopIdempotent ==
  [][tunnel'.last.name = "stop"
     => (/\ ~IsRunning(tunnel')
         /\ tunnel'.url = None
         /\ TunnelStop(tunnel') = tunnel')]_vars

\* C27: a terminal:resize request reaches a shell only when that shell is the
\* one of the room the sender joined and the sender is that room's creator,
\* the first connection admitted to it; a request of any other connection
\* emits nothing, disconnects nobody and changes no state.
C27_ResizeCreatorOnly ==
  [][/\ \A i \in RoomIds :
          room'[i].creatorSocketId # room[i].creatorSocketId
          => (/\ room[i].creatorSocketId = None
              /\ op'.name = "connect" /\ op'.status = "ok" /\ op'.room = i
              /\ room'[i].creatorSocketId = op'.who)
     /\ op'.name = "terminal:resize"
        => (/\ \A p \in op'.resized :
                 p = sock[op'.who].room /\ room[p].creatorSocketId = op'.who
            /\ room[sock[op'.who].room].creatorSocketId # op'.who
               => (/\ op'.resized = {}
                   /\ emitted' = <<>>
                   /\ UNCHANGED <<server, bridge>>))]_vars

\* C28: stopRoom(code) on a registered room kills that room's shell, removes
\* its handle and its registry entry and returns true, and leaves the shell,
\* the handle, the registry entry and the users of every other room as they
\* were; on a code that is not registered it returns false and changes
\* nothing.
C28_StopRoomFrame ==
  [][op'.name = "stopRoom"
     => LET code == op'.code
            id == GetRoom(rooms, code)
        IN IF id = None
           THEN op'.status = "false" /\ UNCHANGED <<server, bridge>>
           ELSE /\ op'.status = "true"
                /\ shell'[id].killed
                /\ op'.killed = {id}
                /\ ptyProcesses'[code] = None
                /\ GetRoom(rooms', code) = None
                /\ \A c \in Codes \ {code} :
                     ptyProcesses'[c] = ptyProcesses[c] /\ rooms'[c] = rooms[c]
                /\ \A i \in RoomIds \ {id} :
                     shell'[i] = shell[i] /\ room'[i] = room[i]
                /\ UNCHANGED <<sock, closed, nRooms>>]_vars

\* stopRoom returned true for one room while another room, with a viewer in
\* it, stays registered with its shell running.
C28_Witness ==
  /\ op.name = "stopRoom"
  /\ op.status = "true"
  /\ \E c \in Codes \ {op.code} :
       /\ GetRoom(rooms, c) # None
       /\ ptyProcesses[c] = GetRoom(rooms, c)
       /\ ~shell[GetRoom(rooms, c)].killed
       /\ UserCount(room[GetRoom(rooms, c)]) > 0

\* C30: what a viewer has received, followed by what is on its way to it, is
\* the chunks the shell wrote since the viewer joined, each once and in the
\* order they were written; what a viewer that left had received is an
\* unbroken run of them.
C30_OutputInOrder ==
  \A s \in Sockets :
    LET all == relay.got[s] \o relay.wire[s]
    IN /\ \A i \in 1..Len(all) : all[i] = relay.since[s] + i
       /\ relay.state[s] = "joined" => Len(all) = relay.chunks - relay.since[s]

\* A viewer that joined after the first chunk has received every later
\* chunk, while another viewer has been in the room from the start.
C30_Witness ==
  /\ relay.chunks = MaxChunks
  /\ \E s, t \in Sockets :
       /\ relay.state[s] = "joined" /\ relay.since[s] = 1
       /\ relay.got[s] = [i \in 1..(MaxChunks - 1) |-> i + 1]
       /\ relay.state[t] = "joined" /\ relay.since[t] = 0
       /\ Len(relay.got[t]) = MaxChunks

\* C26: a handleCreateSession with a tunnel requested creates its room with
\* a running shell before it awaits tunnel.start, and when that start()
\* rejects it returns the room's code and local URL without a tunnelUrl and
\* leaves the server and the tunnel as they are: the rejection takes no room
\* away.
C26_TunnelFailureKeepsRoom ==
  [][/\ (mcp.create.phase = "idle" /\ mcp'.create.phase = "starting")
        => LET code == mcp'.create.code
           IN /\ GetRoom(rooms', code) = nRooms'
              /\ ptyProcesses'[code] = nRooms'
              /\ shell'[nRooms'].phase = "running"
              /\ ~shell'[nRooms'].killed
              /\ mcp'.create.h = tunnel'.process
     /\ (mcp.create.phase = "starting" /\ mcp'.create.phase = "idle"
         /\ tunnel.child[mcp.create.h].result # "url")
        => (/\ mcp'.last.name = "createSession"
            /\ mcp'.last.status = "ok"
            /\ mcp'.last.roomCode = mcp.create.code
            /\ mcp'.last.localUrl = mcp.create.code
            /\ mcp'.last.tunnelUrl = None
            /\ UNCHANGED <<server, tunnel>>)]_vars

\* A session was returned without a tunnelUrl after its tunnel.start ran into
\* the startup timeout, and its room is registered with its shell running.
C26_Witness ==
  /\ mcp.last.name = "createSession"
  /\ mcp.last.status = "ok"
  /\ mcp.last.tunnel = "timeout"
  /\ mcp.last.tunnelUrl = None
  /\ GetRoom(rooms, mcp.last.roomCode) # None
  /\ ptyProcesses[mcp.last.roomCode] = GetRoom(rooms, mcp.last.roomCode)
  /\ ~shell[GetRoom(rooms, mcp.last.roomCode)].killed

\* C29: when handleStopServer returns, every shell spawned for a room has
\* been killed, no session is listed, no server is cached and the tunnel is
\* stopped (no helper runs unkilled, isRunning is false, url is null); it
\* returns success when no server is cached; and a handleCreateSession that
\* finds no cached server lists, once its room is created, that room only.
C29_StopServerStopsAll ==
  [][/\ (/\ mcp'.last.name = "stopServer" /\ mcp'.last.status = "ok"
         /\ tunnel'.last.name = "stop")
        => (/\ \A i \in RoomIds : shell'[i].phase = "running" => shell'[i].killed
            /\ ListSessions(mcp', rooms') = {}
            /\ ~mcp'.server
            /\ HelpersAlive(tunnel') = {}
            /\ ~IsRunning(tunnel')
            /\ tunnel'.url = None)
     /\ (mcp'.last.name = "createSession" /\ mcp'.last.fresh
         /\ mcp'.last.status \in {"ok", "pending"} /\ mcp'.last # mcp.last
         /\ mcp.create.phase = "idle")
        => ListSessions(mcp', rooms') = {mcp'.last.roomCode}]_vars

\* C31: once the exit callbacks of a shell have run, no chunk of that shell
\* is broadcast as terminal:output or appended to the coalescer of its room.
C31_NoOutputAfterExit ==
  [][\A p \in RoomIds :
       (shell[p].phase = "exited" /\ op'.name = "shell:data" /\ op'.who = p)
       => (/\ \A i \in 1..Len(emitted') : emitted'[i].event # "terminal:output"
           /\ linkedRooms' = linkedRooms)]_vars

\* C32: a coalescer has at most one flush timer pending, the one its
\* `timer` field names; after flush and after destroy none is pending.
C32_OneTimerPending ==
  /\ Cardinality(ob.timers) <= 1
  /\ ob.timers = (IF ob.timer = None THEN {} ELSE {ob.timer})
  /\ ob.last \in {"flush", "destroy"} => ob.timers = {}

\* A second append has come while the timer of the first was pending, and
\* one timer is pending.
C32_Witness ==
  /\ ob.last = "append"
  /\ Len(ob.burst) = 2
  /\ ob.lastAppend > 0
  /\ ob.timers = {ob.now + Delay}

\* C33: the buffer of a coalescer holds the chunks appended since its last
\* flush or destroy, each once and in the order they came; a flush hands
\* exactly that text (ANSI sequences stripped) to the sink, after the texts
\* handed before, and empties the buffer; no other step hands anything to the
\* sink, so no chunk is posted twice and none is lost but by destroy.
C33_EachChunkFlushedOnce ==
  [][/\ ob'.buffer = Concat(ob'.burst)
     /\ IF ob'.last = "flush" /\ ob' # ob
        THEN /\ ob'.buffer = <<>>
             /\ ob'.sink = IF StripAnsi(Concat(ob.burst)) # <<>>
                           THEN Append(ob.sink, StripAnsi(Concat(ob.burst)))
                           ELSE ob.sink
        ELSE ob'.sink = ob.sink
     /\ (ob'.last = "append" /\ ob' # ob)
        => \E data \in BufChunks : ob'.buffer = ob.buffer \o data]_vars

\* Two flushes have handed two texts to the sink, the second made of two
\* chunks, in the order of the appends.
C33_Witness ==
  /\ ob.last = "flush"
  /\ ob.sink = <<StripAnsi(<<"a">>), StripAnsi(<<"a">> \o <<"a">>)>>
  /\ Len(ob.done) = 2
  /\ ob.buffer = <<>>

\* C34: the promise of a start() settles once: from pending it goes to
\* resolved with the URL its helper printed, or to one of not installed,
\* spawn error, early exit and timeout, and no later event changes it; a
\* start() while isRunning is rejected as already running on the spot and
\* has no helper whose events could reach it.
C34_StartSettlesOnce ==
  [][/\ \A h \in Helpers :
          LET was == tunnel.child[h].result
              is == tunnel'.child[h].result
          IN /\ was \notin {"none", "pending"} => is = was
             /\ (was = "pending" /\ is # was)
                => (/\ is \in {"url", "not installed", "error", "exit", "timeout"}
                    /\ tunnel'.last.h = h
                    /\ tunnel'.child[h].settled /\ ~tunnel'.child[h].timer
                    /\ is = "url" => tunnel'.url = h)
             /\ tunnel'.child[h].settled <=> is \notin {"none", "pending"}
     /\ (tunnel'.last.outcome = "already running" /\ tunnel'.last # tunnel.last)
        => tunnel'.child = tunnel.child]_vars

\* A start() resolved with its URL, and afterwards its helper was stopped
\* and has closed: the outcome is still the URL.
C34_Witness ==
  \E h \in Helpers :
    /\ tunnel.child[h].result = "url"
    /\ tunnel.child[h].killed
    /\ tunnel.child[h].phase = "closed"

\* C39: the timeout and the close handlers of the start() that launched
\* helper h leave every other helper as it is: they kill no other helper, and
\* when process or url belongs to another helper they leave it set.
C39_HandlersOwnHelperOnly ==
  [][\A h \in Helpers :
       (tunnel'.last.h = h /\ tunnel'.last.name \in {"timeout", "close"}
        /\ tunnel'.last # tunnel.last)
       => (/\ \A g \in Helpers \ {h} : tunnel'.child[g] = tunnel.child[g]
           /\ tunnel.process \notin {None, h} => tunnel'.process = tunnel.process
           /\ tunnel.url \notin {None, h} => tunnel'.url = tunnel.url)]_vars

\* C35: on /slack/events a request leads to handleThreadReply exactly when
\* it carries a message event with a thread and without a bot marker, and
\* then the text is written to the shell of the room the thread is linked to,
\* if there is one; a url_verification request is answered with its
\* challenge and every other event with 200, and these write to no shell;
\* no request on the endpoint changes rooms, sockets or links.
C35_OnlyThreadRepliesRouted ==
  [][op'.name = "slack:event" =>
     \A r \in EventRequests :
       SlackEvent(r[2], r[1], r[3])
       => LET body == r[3]
              routed == body.kind = "message" /\ body.thread # NoThread /\ ~body.bot
              code == GetRoomForThread(Bridge, "C1", body.thread)
          IN /\ routed <=> op'.status = "reply"
             /\ routed
                => op'.wrote = (IF code = NoCode \/ ptyProcesses[code] = None
                                THEN {} ELSE {ptyProcesses[code]})
             /\ body.kind = "url_verification" <=> op'.status = "challenge"
             /\ ~routed => op'.wrote = {}
             /\ op'.status \in {"reply", "challenge", "200"}
             /\ emitted' = <<>>
             /\ UNCHANGED <<server, bridge>>]_vars

\* An event that is not the thread reply of a person was acknowledged and
\* written nowhere, while a room is linked and its shell runs.
C35_Witness ==
  /\ op.name = "slack:event"
  /\ op.status = "200"
  /\ op.wrote = {}
  /\ \E c \in Codes :
       /\ Linked(linkedRooms, c)
       /\ ptyProcesses[c] # None
       /\ shell[ptyProcesses[c]].phase = "running"

C37_CreatorIsFirstAdmitted ==
  [][\A i \in RoomIds :
       /\ room[i].creatorSocketId # None
          => room'[i].creatorSocketId = room[i].creatorSocketId
       /\ (room[i].creatorSocketId = None /\ room'[i].creatorSocketId # None)
          => (/\ op'.name = "connect" /\ op'.status = "ok" /\ op'.room = i
              /\ room'[i].creatorSocketId = op'.who
              /\ UserCount(room[i]) = 0)
       /\ (op'.name = "connect" /\ op'.status = "ok" /\ op'.room = i)
          => room'[i].creatorSocketId # None]_vars

\* The creator of a room has disconnected, a later joiner is still in the
\* room, and the creator recorded is the connection that left.
C37_Witness ==
  \E i \in RoomIds, s \in Sockets :
    /\ room[i].creatorSocketId # None
    /\ room[i].creatorSocketId # s
    /\ sock[room[i].creatorSocketId].state = "gone"
    /\ sock[s].state = "joined" /\ sock[s].room = i
    /\ UserCount(room[i]) = 1

\* C38: every code in the bridge's link map names a room that is in the
\* registry.
C38_LinkedRoomsRegistered ==
  \A c \in Codes : Linked(linkedRooms, c) => GetRoom(rooms, c) # None

\* The last callback sent terminal:exit to the connection s.
ExitSentTo(s) ==
  \E i \in 1..Len(emitted) : emitted[i].event = "terminal:exit" /\ s \in emitted[i].to

\* C40: a connection, which is a viewer of one room, is sent terminal:exit
\* at most once: no callback sends it twice, no callback sends it right after
\* a callback that sent it, and once a callback that did not send it has run
\* after one that did, none sends it again.
C40_ExitAtMostOnce ==
  /\ [][\A s \in Sockets :
          /\ Cardinality({i \in 1..Len(emitted') :
                            emitted'[i].event = "terminal:exit"
                            /\ s \in emitted'[i].to}) <= 1
          /\ ~(ExitSentTo(s) /\ ExitSentTo(s)')]_vars
  /\ \A s \in Sockets :
       [](ExitSentTo(s) => [](~ExitSentTo(s) => []~ExitSentTo(s)))

====
